---------------------------- MODULE Spec2Model ----------------------------
(***************************************************************************)
(* Verification model of the conversation orchestration and concurrency  *)
(* safety engine of the Facebook sales-agent backend:                      *)
(*   - ReplayCache            (src/src/utils/replay-cache.ts)              *)
(*   - RateLimiter            (src/unnamed/part_001)                       *)
(*   - EventBuffer            (src/unnamed/part_011)                       *)
(*   - POST /webhook          (src/src/server.ts)                          *)
(*   - circuit breaker and generateAiReplyWithHistory (src/src/core/ai.ts) *)
(*   - handleConversation     (src/src/core/conversation.ts)               *)
(*   - createOrder            (src/src/services/orders.ts)                 *)
(*   - retrieveSimilarContext (src/unnamed/part_017)                       *)
(* Every component has its own specification (SpecRC, SpecRL, SpecEB,      *)
(* Spec, SpecFull, SpecSweep, SpecCB, SpecReply, SpecConv, SpecSeq,        *)
(* SpecOrd, SpecRetr, SpecBuf, SpecCache, SpecSrv, SpecKey, SpecLive)      *)
(* over one shared clock `now` (Date.now(), ms).                           *)
(***************************************************************************)
EXTENDS Integers, Sequences, FiniteSets, TLC

VARIABLES
  now,        \* Date.now() in milliseconds
  \* ---- ReplayCache ----
  store,      \* ReplayCache.store: message id -> expiresAt (NoEntry when absent)
  rcLast,     \* history: the last seen() call and what it returned
  rcExpiry,   \* history: expiry of the entry each id's last first-sighting recorded
  \* ---- RateLimiter ----
  buckets,    \* RateLimiter.buckets: key -> {count, resetAt} (NoBucket when absent)
  rlLast,     \* history: the last allowEvent() call and what it returned
  rlWin,      \* history: per key, the end of the current window and the calls in it
  \* ---- EventBuffer and its callback ----
  buffer,     \* EventBuffer.buffer: senderId -> BufferedEvent (NoEvent when absent)
  timers,     \* the pending setTimeout callbacks: {tid, user, due}
  timersMap,  \* EventBuffer.timers: senderId -> timer handle (0 when absent)
  evCount,    \* the number of addEvent calls so far (names events and timers)
  pairs,      \* history: text event / image event pairs added within one window
  lastText,   \* history: per user, the last text-only event that opened an entry
  cbLog,      \* history: the callback invocations (handleConversation calls)
  dropped,    \* history: entries overwritten or deleted without a callback
  turns,      \* handleConversation promises still pending (by firing timer)
  replies,    \* sendTextMessage calls (by firing timer)
  lastAdd,    \* history: the last addEvent call, the entry it found and the entry it left
  owed,       \* history: the events added and not yet followed by a callback
  \* ---- serverless webhook handler ----
  handlers,   \* the POST invocations: {id, accepted, awaited, phase}
  \* ---- the keys of the response cache ----
  keyed,      \* the cache by key string, and the last lookup made in it
  \* ---- POST /webhook ----
  gBuckets,   \* globalLimiter.buckets
  postCount,  \* the number of events delivered so far
  lastPost,   \* history: the last delivered event and what the loop did with it
  \* ---- circuit breaker, response cache, de-duplication (core/ai.ts) ----
  circuitBreakerFailures,
  circuitBreakerResetTime,
  responseCache,    \* cache key -> timestamp of the entry (NoCache when absent)
  pendingRequests,  \* cache key -> whether a request promise is registered
  aiBuckets,        \* aiRateLimiter.buckets
  calls,            \* the requests in flight: {id, kind, user, query, pc}
  callCount,        \* the number of calls started so far
  outcomes,         \* history: the last outcomes recorded since the last reset
  opening,          \* history: the last time a failure set the reset time
  backendWhileOpen, \* history: a backend request was issued inside an open window
  lastCheck,        \* history: the last breaker check by a call and where it led
  lastReturn,       \* history: the last answer a caller of the reply functions got
  waiters,          \* history: cache key -> the callers awaiting its pending request
  apiKeyOk,         \* process.env.OPENAI_API_KEY is set and well-formed (getOpenAI)
  \* ---- retrieveSimilarContext ----
  retrieval,        \* the call followed: its searches' answers and, in the end, its result
  \* ---- handleConversation (core/conversation.ts) ----
  leads,      \* the leads table: user -> Lead row (NoLead when absent)
  orders,     \* the orders created: {user, po, n}, the n-th order of pending order po
  poCount,    \* the number of pending orders written so far (names them)
  convTurns,  \* the handleConversation calls in flight
  turnCount,  \* the number of turns started so far
  lastDone,   \* history: the last turn that settled, what it read and left behind
  \* ---- createOrder (services/orders.ts) ----
  tenantId,   \* env.PRODUCT_TENANT_ID is configured
  orderRows,  \* the orders table: ids of the rows
  itemRows,   \* the order_items table: order ids of the rows
  coCalls,    \* the createOrder calls in flight: {id, n, pc}
  coCount,    \* the number of createOrder calls so far (names the order rows)
  coReturned  \* history: the calls that returned and what they left behind

varsRC == <<store, rcLast, rcExpiry>>
varsRL == <<buckets, rlLast, rlWin>>
varsEB == <<buffer, timers, timersMap, evCount, pairs, lastText, cbLog, dropped, turns, replies>>
varsAdd == <<lastAdd>>
varsOwe == <<owed>>
varsSrv == <<handlers>>
varsKey == <<keyed>>
varsWeb == <<gBuckets, postCount, lastPost>>
varsCB == <<circuitBreakerFailures, circuitBreakerResetTime, responseCache,
           pendingRequests, aiBuckets, calls, callCount, outcomes, opening,
           backendWhileOpen, lastCheck>>
varsRet == <<lastReturn, waiters, apiKeyOk>>
varsRetr == <<retrieval>>
varsConv == <<leads, orders, poCount, convTurns, turnCount, lastDone>>
varsOrd == <<tenantId, orderRows, itemRows, coCalls, coCount, coReturned>>
vars == <<now, varsRC, varsRL, varsEB, varsAdd, varsOwe, varsSrv, varsKey, varsWeb, varsCB, varsRet, varsRetr, varsConv, varsOrd>>
\* what a component's own actions leave untouched
othersRC == <<varsRL, varsEB, varsWeb, varsCB, varsConv, varsOrd, varsRet, varsRetr, varsAdd, varsSrv, varsKey, varsOwe>>
othersRL == <<varsRC, varsEB, varsWeb, varsCB, varsConv, varsOrd, varsRet, varsRetr, varsAdd, varsSrv, varsKey, varsOwe>>
othersEB == <<varsRC, varsRL, varsWeb, varsCB, varsConv, varsOrd, varsRet, varsRetr, varsAdd, varsSrv, varsKey, varsOwe>>
othersKey == <<varsRC, varsRL, varsEB, varsWeb, varsCB, varsConv, varsOrd, varsRet, varsRetr, varsAdd, varsSrv, varsOwe>>
othersLive == <<varsRC, varsRL, varsWeb, varsCB, varsConv, varsOrd, varsRet, varsRetr, varsAdd, varsSrv, varsKey>>
othersSrv == <<varsRC, varsRL, varsWeb, varsCB, varsConv, varsOrd, varsRet, varsRetr, varsAdd, varsKey, varsOwe>>
othersBuf == <<varsRC, varsRL, varsWeb, varsCB, varsConv, varsOrd, varsRet, varsRetr, varsSrv, varsKey, varsOwe>>
othersWeb == <<varsCB, varsConv, varsOrd, varsRet, varsRetr, varsAdd, varsSrv, varsKey, varsOwe>>
othersReply == <<varsRC, varsRL, varsEB, varsWeb, varsConv, varsOrd, varsRetr, varsAdd, varsSrv, varsKey, varsOwe>>
othersRetr == <<varsRC, varsRL, varsEB, varsWeb, varsCB, varsRet, varsConv, varsOrd, varsAdd, varsSrv, varsKey, varsOwe>>
othersOrd == <<varsRC, varsRL, varsEB, varsWeb, varsCB, varsConv, varsRet, varsRetr, varsAdd, varsSrv, varsKey, varsOwe>>
othersCB == <<varsRC, varsRL, varsEB, varsWeb, varsConv, varsOrd, varsRet, varsRetr, varsAdd, varsSrv, varsKey, varsOwe>>
othersConv == <<varsRC, varsRL, varsEB, varsWeb, varsCB, varsOrd, varsRet, varsRetr, varsAdd, varsSrv, varsKey, varsOwe>>

(***************************************************************************)
(* Clock                                                                   *)
(***************************************************************************)
\* The clock advances by d as long as it stays within the horizon h.
Tick(d, h) == /\ now + d <= h
              /\ now' = now + d

(***************************************************************************)
(* ReplayCache (src/src/utils/replay-cache.ts)                             *)
(***************************************************************************)
Mids == {"m1", "m2"}
NoEntry == -1
\* REPLAY_TTL_MS = 15 * 60_000, the ttl server.ts constructs the cache with
REPLAY_TTL_MS == 900000
ttlMs == REPLAY_TTL_MS

\* Clock granule and horizon of SpecRC
RCStep == 300000
RCHorizon == 2100000

\* cleanup(now): delete every entry with expiresAt <= now
cleanup(s, t) ==
  [k \in DOMAIN s |-> IF s[k] # NoEntry /\ s[k] <= t THEN NoEntry ELSE s[k]]

\* what seen(id) returns at time t: entry && entry.expiresAt > now, after cleanup
seenResult(s, id, t) ==
  LET c == cleanup(s, t) IN c[id] # NoEntry /\ c[id] > t

\* A sliding-TTL variant: every sighting refreshes the expiry.
seenStoreSliding(s, id, t) ==
  [cleanup(s, t) EXCEPT ![id] = t + ttlMs]

\* the store seen(id) leaves behind at time t
seenStore(s, id, t) ==
  LET c == cleanup(s, t) IN
  IF c[id] # NoEntry /\ c[id] > t THEN c ELSE [c EXCEPT ![id] = t + ttlMs]

\* The history kept for one seen(id) call: what the contract expects of it.
SeenHistory(id) ==
  LET fresh == rcExpiry[id] = NoEntry \/ now >= rcExpiry[id] IN
  /\ rcLast' = [id |-> id, at |-> now, ret |-> seenResult(store, id, now),
                want |-> ~fresh,
                \* the same calls at the same times with no cleanup() between them
                plain |-> seenStore(rcLast.plain, id, now),
                plainRet |-> seenResult(rcLast.plain, id, now)]
  /\ rcExpiry' = IF fresh THEN [rcExpiry EXCEPT ![id] = now + ttlMs] ELSE rcExpiry

InitRC == /\ store = [m \in Mids |-> NoEntry]
          /\ rcLast = [id |-> "none", at |-> 0, ret |-> FALSE, want |-> FALSE,
                       plain |-> [m \in Mids |-> NoEntry], plainRet |-> FALSE]
          /\ rcExpiry = [m \in Mids |-> NoEntry]

\* one call of replayCache.seen(id)
RC_Seen(id) ==
  /\ store' = seenStore(store, id, now)
  /\ SeenHistory(id)
  /\ UNCHANGED <<now, othersRC>>

RC_Tick == /\ Tick(RCStep, RCHorizon)
           /\ UNCHANGED <<varsRC, othersRC>>

NextRC == (\E id \in Mids : RC_Seen(id)) \/ RC_Tick

\* C4: seen(id) returns false exactly on a first sighting or on the first
\* sighting at or after the recorded expiry, and then records now + ttl; every
\* sighting strictly before the expiry returns true and leaves the expiry as
\* it was recorded (the store holds the recorded expiry of every live id).
C4_SeenContract ==
  /\ rcLast.id # "none" => rcLast.ret = rcLast.want
  /\ \A m \in Mids : (rcExpiry[m] # NoEntry /\ rcExpiry[m] > now) => store[m] = rcExpiry[m]
  /\ (rcLast.id # "none" /\ ~rcLast.ret /\ rcLast.at = now) => store[rcLast.id] = now + ttlMs

\* C4 witness: a sighting strictly before the expiry was rejected, after time
\* has passed since the first sighting, and the expiry is still the first one.
C4_Witness ==
  /\ rcLast.id # "none" /\ rcLast.ret /\ rcLast.at > 0
  /\ store[rcLast.id] < rcLast.at + ttlMs
  /\ \E m \in Mids : m # rcLast.id /\ store[m] # NoEntry

(***************************************************************************)
(* RateLimiter (src/unnamed/part_001, same code in utils/rate-limiter.ts)  *)
(***************************************************************************)
Users == {"u1", "u2"}
NoBucket == [count |-> 0, resetAt |-> 0]
RATE_LIMIT_WINDOW_MS == 30000
RATE_LIMIT_MAX_EVENTS == 4

\* Clock granule and horizon of SpecRL
RLStep == 10000
RLHorizon == 70000

\* !bucket || bucket.resetAt <= now
bucketExpired(b, t) == b = NoBucket \/ b.resetAt <= t

\* A sweep that drops every bucket, expired or not.
cleanExpiredAll(b, t) == [k \in DOMAIN b |-> NoBucket]

\* An off-by-one variant of the admission test.
allowEventResultInclusive(b, k, t, maxEv) ==
  bucketExpired(b[k], t) \/ b[k].count <= maxEv

\* what allowEvent(k) returns at time t
allowEventResult(b, k, t, maxEv) ==
  bucketExpired(b[k], t) \/ b[k].count < maxEv

\* the bucket map allowEvent(k) leaves behind at time t
allowEventBuckets(b, k, t, win, maxEv) ==
  IF bucketExpired(b[k], t)
    THEN [b EXCEPT ![k] = [count |-> 1, resetAt |-> t + win]]
    ELSE IF b[k].count < maxEv
      THEN [b EXCEPT ![k] = [count |-> b[k].count + 1, resetAt |-> b[k].resetAt]]
      ELSE b

\* cleanExpired(): delete every bucket with resetAt <= now
cleanExpired(b, t) ==
  [k \in DOMAIN b |-> IF b[k] # NoBucket /\ b[k].resetAt <= t THEN NoBucket ELSE b[k]]

\* The history kept for one allowEvent(k) call: the call's rank in its window,
\* a window running from the call that opened it until win later.
AllowHistory(k, win, maxEv) ==
  LET fresh == rlWin[k].calls = 0 \/ now >= rlWin[k].resetAt
      nth == IF fresh THEN 1
             ELSE IF rlWin[k].calls > maxEv THEN maxEv + 1 ELSE rlWin[k].calls + 1
  IN
  /\ rlLast' = [key |-> k, at |-> now, nth |-> nth,
                ret |-> allowEventResult(buckets, k, now, maxEv),
                \* the same calls at the same times with no cleanExpired() between them
                plain |-> allowEventBuckets(rlLast.plain, k, now, win, maxEv),
                plainRet |-> allowEventResult(rlLast.plain, k, now, maxEv)]
  /\ rlWin' = [rlWin EXCEPT ![k] =
                 [calls |-> nth,
                  resetAt |-> IF fresh THEN now + win ELSE rlWin[k].resetAt]]

InitRL == /\ buckets = [k \in Users |-> NoBucket]
          /\ rlLast = [key |-> "none", at |-> 0, nth |-> 0, ret |-> FALSE,
                       plain |-> [k \in Users |-> NoBucket], plainRet |-> FALSE]
          /\ rlWin = [k \in Users |-> [calls |-> 0, resetAt |-> 0]]

\* one call of rateLimiter.allowEvent(k)
RL_AllowEvent(k) ==
  /\ buckets' = allowEventBuckets(buckets, k, now, RATE_LIMIT_WINDOW_MS, RATE_LIMIT_MAX_EVENTS)
  /\ AllowHistory(k, RATE_LIMIT_WINDOW_MS, RATE_LIMIT_MAX_EVENTS)
  /\ UNCHANGED <<now, othersRL>>

\* the periodic sweep started by startAutoCleanup
RL_CleanExpired ==
  /\ buckets' = cleanExpired(buckets, now)
  /\ UNCHANGED <<now, rlLast, rlWin, othersRL>>

RL_Tick == /\ Tick(RLStep, RLHorizon)
           /\ UNCHANGED <<varsRL, othersRL>>

NextRL == (\E k \in Users : RL_AllowEvent(k)) \/ RL_CleanExpired \/ RL_Tick

\* C7: within one window the first maxEvents calls of a key are allowed and
\* every later one is rejected; the first call at or after resetAt is allowed
\* and opens a new window with count 1.
C7_AllowEventWindow ==
  rlLast.key # "none" =>
    /\ rlLast.ret = (rlLast.nth <= RATE_LIMIT_MAX_EVENTS)
    /\ (rlLast.nth = 1 /\ rlLast.at = now) =>
         buckets[rlLast.key] = [count |-> 1, resetAt |-> now + RATE_LIMIT_WINDOW_MS]

\* C7 witness: the (maxEvents+1)th call of a window was rejected in a window
\* that was opened after an earlier one had elapsed.
C7_Witness ==
  /\ rlLast.key # "none" /\ ~rlLast.ret
  /\ rlLast.nth = RATE_LIMIT_MAX_EVENTS + 1
  /\ buckets[rlLast.key].resetAt > RATE_LIMIT_WINDOW_MS

(***************************************************************************)
(* The sweeps: RateLimiter.cleanExpired and ReplayCache.cleanup called at  *)
(* arbitrary points between the allowEvent and seen calls of one user      *)
(***************************************************************************)
SweepUser == "u1"
\* the clock of SpecSweep advances by a rate-limit window twice, then by
\* RCStep up to the horizon
SweepHorizon == 960000

\* replayCache.cleanup(), called from outside seen()
RC_Cleanup ==
  /\ store' = cleanup(store, now)
  /\ UNCHANGED <<now, rcLast, rcExpiry, othersRC>>

SW_Tick == /\ Tick(IF now < 2 * RATE_LIMIT_WINDOW_MS THEN RATE_LIMIT_WINDOW_MS ELSE RCStep,
                   SweepHorizon)
           /\ UNCHANGED <<varsRC, varsRL, othersEB, varsEB>>

NextSweep ==
  \/ \E id \in Mids : RC_Seen(id)
  \/ RC_Cleanup
  \/ RL_AllowEvent(SweepUser)
  \/ RL_CleanExpired
  \/ SW_Tick

\* the entries a later call can still read: unexpired ones
liveEntries(s) == [k \in DOMAIN s |-> IF s[k] # NoEntry /\ s[k] > now THEN s[k] ELSE NoEntry]
liveBuckets(b) == [k \in DOMAIN b |-> IF b[k].resetAt > now THEN b[k] ELSE NoBucket]

\* C38: every allowEvent call returns what the same call returns in the run
\* that makes the same calls at the same times with no cleanExpired between
\* them, and every seen call returns what it returns in the run with no
\* cleanup calls outside seen; the two runs hold the same unexpired buckets
\* and entries.
C38_SweepsTransparent ==
  /\ rlLast.ret = rlLast.plainRet
  /\ rcLast.ret = rcLast.plainRet
  /\ liveBuckets(buckets) = liveBuckets(rlLast.plain)
  /\ liveEntries(store) = liveEntries(rcLast.plain)

\* C38 witness: after allowEvent rejected a call in the user's second window
\* and seen reported a replay, the sweeps have removed the expired bucket and
\* an expired entry, which the run without sweeps still holds
C38_Witness ==
  /\ rlLast.key = SweepUser /\ ~rlLast.ret /\ rlLast.at > 0
  /\ rcLast.id # "none" /\ rcLast.ret /\ rcLast.at > 0
  /\ buckets[SweepUser] = NoBucket /\ rlLast.plain[SweepUser] # NoBucket
  /\ \E m \in Mids : store[m] = NoEntry /\ rcLast.plain[m] # NoEntry

(***************************************************************************)
(* EventBuffer (src/unnamed/part_011) and the callback POST /webhook hands *)
(* it (src/src/server.ts:126-151)                                          *)
(***************************************************************************)
\* message texts (already trimmed and sanitized) and image references
Texts == {"", "hi", "shoes"}
Images == {"", "img"}
MidsOrNone == Mids \cup {""}
\* new EventBuffer(2000)
waitTimeMs == 2000
\* the settle delay of the timer a merge schedules
SETTLE_MS == 500

\* addEvent calls a behaviour may make, clock granule and horizon of SpecEB
MaxAdds == 3
EBStep == 500
EBHorizon == 3000

NoEvent == [messageText |-> "", imageUrl |-> "", mid |-> "", timestamp |-> -1,
            eid |-> 0, evs |-> {}]

\* existing && (now - existing.timestamp) < this.waitTimeMs
shouldMerge(existing, t) == existing # NoEvent /\ (t - existing.timestamp) < waitTimeMs

\* a || b on strings: the empty string is falsy
OrElse(a, b) == IF a # "" THEN a ELSE b

\* A variant of the merge that restarts the window at every follow-up.
mergedEventSliding(existing, text, img, mid, n) ==
  [messageText |-> IF Len(text) > Len(existing.messageText) THEN text
                   ELSE existing.messageText,
   imageUrl |-> OrElse(img, existing.imageUrl),
   mid |-> OrElse(mid, existing.mid),
   timestamp |-> now,
   eid |-> existing.eid,
   evs |-> existing.evs \cup {n}]

\* the merged BufferedEvent (lines 56-62); eid and evs are history
mergedEvent(existing, text, img, mid, n) ==
  [messageText |-> IF Len(text) > Len(existing.messageText) THEN text
                   ELSE existing.messageText,
   imageUrl |-> OrElse(img, existing.imageUrl),
   mid |-> OrElse(mid, existing.mid),
   timestamp |-> existing.timestamp,
   eid |-> existing.eid,
   evs |-> existing.evs \cup {n}]

\* the BufferedEvent of a new entry (lines 108-114)
newEvent(text, img, mid, t, n) ==
  [messageText |-> text, imageUrl |-> img, mid |-> mid, timestamp |-> t,
   eid |-> n, evs |-> {n}]

\* A variant of the new-entry branch that flushes nothing but at least
\* clears the timer of the entry it replaces.
addEventNewTimersClearing(u, t, n) ==
  {x \in timers : x.tid # timersMap[u]}
    \cup {[tid |-> n, user |-> u, due |-> t + waitTimeMs]}

\* the pending timeouts after the new-entry branch: the old timer is not cleared
addEventNewTimers(u, t, n) ==
  timers \cup {[tid |-> n, user |-> u, due |-> t + waitTimeMs]}

\* The history kept for the events of one logical turn: a text-only event
\* that opened a buffer entry, and an image-only event that is the same
\* user's next event, added less than waitTimeMs later.
PairHistory(u, text, img, existing, n) ==
  /\ lastText' = [lastText EXCEPT ![u] =
                    IF text # "" /\ img = "" /\ ~shouldMerge(existing, now)
                      THEN [n |-> n, at |-> now]
                      ELSE [n |-> 0, at |-> 0]]
  /\ pairs' = IF text = "" /\ img # "" /\ lastText[u].n # 0
                 /\ now - lastText[u].at < waitTimeMs
               THEN pairs \cup {[t |-> lastText[u].n, i |-> n]}
               ELSE pairs

\* EventBuffer.addEvent(senderId, messageText, imageUrl, mid, callback)
addEvent(u, text, img, mid) ==
  LET existing == buffer[u]
      n == evCount + 1
  IN
  /\ evCount' = n
  /\ PairHistory(u, text, img, existing, n)
  /\ IF shouldMerge(existing, now)
       THEN /\ buffer' = [buffer EXCEPT ![u] = mergedEvent(existing, text, img, mid, n)]
            \* clearTimeout(this.timers.get(senderId)), then the 500 ms timer
            /\ timers' = {x \in timers : x.tid # timersMap[u]}
                           \cup {[tid |-> n, user |-> u, due |-> now + SETTLE_MS]}
            /\ timersMap' = [timersMap EXCEPT ![u] = n]
            /\ UNCHANGED dropped
       ELSE /\ buffer' = [buffer EXCEPT ![u] = newEvent(text, img, mid, now, n)]
            /\ timers' = addEventNewTimers(u, now, n)
            /\ timersMap' = [timersMap EXCEPT ![u] = n]
            /\ dropped' = IF existing # NoEvent THEN dropped \cup {existing.eid}
                          ELSE dropped
  /\ UNCHANGED <<cbLog, turns, replies>>

\* a setTimeout callback of addEvent runs (lines 75-91 and 119-135), handing
\* the buffered event to the callback of server.ts, which calls
\* handleConversation (lines 126-137)
fireTimer(x) ==
  LET final == buffer[x.user]
      c == x.tid
  IN
  /\ timers' = timers \ {x}
  /\ IF final # NoEvent
       THEN /\ buffer' = [buffer EXCEPT ![x.user] = NoEvent]
            /\ timersMap' = [timersMap EXCEPT ![x.user] = 0]
            /\ cbLog' = cbLog \cup {[user |-> x.user, text |-> final.messageText,
                                     img |-> final.imageUrl, mid |-> final.mid,
                                     eid |-> final.eid, evs |-> final.evs,
                                     tid |-> x.tid]}
            /\ turns' = turns \cup {c}
       ELSE UNCHANGED <<buffer, timersMap, cbLog, turns>>
  /\ UNCHANGED <<evCount, pairs, lastText, dropped, replies>>

InitEB == /\ buffer = [u \in Users |-> NoEvent]
          /\ timers = {}
          /\ timersMap = [u \in Users |-> 0]
          /\ evCount = 0
          /\ pairs = {}
          /\ lastText = [u \in Users |-> [n |-> 0, at |-> 0]]
          /\ cbLog = {}
          /\ dropped = {}
          /\ turns = {}
          /\ replies = {}

\* one addEvent call with a text, an image or both
EB_AddEvent(u, text, img, mid) ==
  /\ evCount < MaxAdds
  /\ text # "" \/ img # ""
  /\ addEvent(u, text, img, mid)
  /\ UNCHANGED <<now, othersEB>>

\* a timer fires, at or after the time it is due
EB_FireTimer(x) ==
  /\ x.due <= now
  /\ fireTimer(x)
  /\ UNCHANGED <<now, othersEB>>

\* handleConversation resolves: .then sends the reply (lines 138-147)
EB_Resolve(c) ==
  /\ turns' = turns \ {c}
  /\ replies' = replies \cup {c}
  /\ UNCHANGED <<now, buffer, timers, timersMap, evCount, pairs, lastText, cbLog, dropped, othersEB>>

\* handleConversation rejects: .catch logs the error (lines 148-150)
EB_Reject(c) ==
  /\ turns' = turns \ {c}
  /\ UNCHANGED <<now, buffer, timers, timersMap, evCount, pairs, lastText, cbLog, dropped, replies, othersEB>>

EB_Tick == /\ Tick(EBStep, EBHorizon)
           /\ UNCHANGED <<varsEB, othersEB>>

NextEB ==
  \/ \E u \in Users, text \in Texts, img \in Images, mid \in {"", "m1"} :
       EB_AddEvent(u, text, img, mid)
  \/ \E x \in timers : EB_FireTimer(x)
  \/ \E c \in turns : EB_Resolve(c)
  \/ \E c \in turns : EB_Reject(c)
  \/ EB_Tick

\* C5: a text event and an image event of one user added within the
\* coalescing window reach the callback together: the one callback that
\* carries either carries both, with the text and the image.
C5_OneCallbackPerTurn ==
  \A p \in pairs : \A c \in cbLog :
    /\ (p.t \in c.evs) = (p.i \in c.evs)
    /\ p.t \in c.evs => (c.text # "" /\ c.img # "")

\* C6: no buffer entry is overwritten or deleted without having been handed
\* to a callback, and no entry is handed to a callback twice.
C6_FlushedExactlyOnce ==
  /\ dropped = {}
  /\ \A c1, c2 \in cbLog : c1.eid = c2.eid => c1 = c2

(***************************************************************************)
(* The EventBuffer of one user, fed with events that carry different       *)
(* images; the last addEvent call is kept for the merge rule.              *)
(***************************************************************************)
BufUser == "u1"
BufImages == {"", "img", "img2"}

NoAdd == [text |-> "", img |-> "", merged |-> FALSE, existing |-> NoEvent,
          result |-> NoEvent]

InitAdd == lastAdd = NoAdd

\* one addEvent call of the user, with a text, an image or both
BF_AddEvent(text, img) ==
  /\ evCount < MaxAdds
  /\ text # "" \/ img # ""
  /\ addEvent(BufUser, text, img, "")
  /\ lastAdd' = [text |-> text, img |-> img,
                 merged |-> shouldMerge(buffer[BufUser], now),
                 existing |-> buffer[BufUser], result |-> buffer'[BufUser]]
  /\ UNCHANGED <<now, othersBuf>>

NextBuf ==
  \/ \E text \in Texts, img \in BufImages : BF_AddEvent(text, img)
  \/ \E x \in timers : EB_FireTimer(x)
  \/ \E c \in turns : EB_Resolve(c)
  \/ \E c \in turns : EB_Reject(c)
  \/ EB_Tick

\* C27: when an event is merged into a buffered turn, the merged text is the
\* longer of the two texts (the buffered one on a tie), and the merged image
\* is the buffered image when one is present, the new event's image being
\* used only if the buffered turn has none.
C27_MergeRule ==
  lastAdd.merged =>
    /\ lastAdd.result.messageText =
         IF Len(lastAdd.text) > Len(lastAdd.existing.messageText)
           THEN lastAdd.text ELSE lastAdd.existing.messageText
    /\ lastAdd.result.imageUrl =
         IF lastAdd.existing.imageUrl # "" THEN lastAdd.existing.imageUrl
         ELSE lastAdd.img

\* C28: a timer scheduled for one buffer entry never flushes a different
\* entry created later for the same user: every entry handed to the callback
\* was flushed by a timer scheduled by one of its own events.
C28_NoStaleTimerFire ==
  \A c \in cbLog : c.tid \in c.evs

(***************************************************************************)
(* The serverless webhook handler (src/unnamed/part_022, lines 24-160): a  *)
(* POST hands its accepted event to the EventBuffer with a callback that   *)
(* pushes the handling of the flushed turn onto the invocation's `tasks`,  *)
(* then awaits Promise.allSettled(tasks) and answers 200.  The container   *)
(* is taken to stay alive after the response.                              *)
(***************************************************************************)
SrvUser == "u1"
SrvTexts == {"hi", "shoes"}

InitSrv == handlers = {}

\* the tasks array of the invocation that added event n, read from the
\* callbacks run so far: a task is pushed when a timer hands the callback an
\* entry (lines 122-147)
tasksOf(n, log) == {c.tid : c \in {x \in log : n \in x.evs}}

\* a POST with one event that passes the replay, age and rate checks: the loop
\* calls addEvent (line 121) and the handler comes to its await (line 151)
SV_Post(text) ==
  /\ evCount < MaxAdds
  /\ addEvent(SrvUser, text, "", "")
  /\ handlers' = handlers \cup
       {[id |-> evCount', accepted |-> {evCount'},
         awaited |-> tasksOf(evCount', cbLog'), phase |-> "awaiting"]}
  /\ UNCHANGED <<now, othersSrv>>

\* Promise.allSettled(tasks) resolved: res.statusCode = 200; res.end('OK')
SV_Respond(h) ==
  /\ h.phase = "awaiting"
  /\ h.awaited \cap turns = {}
  /\ handlers' = (handlers \ {h}) \cup {[h EXCEPT !.phase = "responded"]}
  /\ UNCHANGED <<now, varsEB, othersSrv>>

NextSrv ==
  \/ \E text \in SrvTexts : SV_Post(text)
  \/ \E h \in handlers : SV_Respond(h)
  \/ \E x \in timers : EB_FireTimer(x)
  \/ \E c \in turns : EB_Resolve(c)
  \/ \E c \in turns : EB_Reject(c)
  \/ EB_Tick

\* C35: the 200 response of a POST is sent only after, for every event of
\* the batch that was accepted into the EventBuffer, the entry that holds it
\* has been handed to the callback and the handling of that turn
\* (handleConversation and the outbound sends) has settled.
C35_ResponseAfterHandling ==
  \A h \in handlers :
    h.phase = "responded" =>
      \A n \in h.accepted :
        \E c \in cbLog : n \in c.evs /\ c.tid \notin turns

(***************************************************************************)
(* The EventBuffer under timers that run when they are due: the clock does *)
(* not pass the due time of a pending timer, and a due timer eventually    *)
(* runs.  Every event added is remembered, with the time its buffer entry  *)
(* was created, until a callback for its user follows.                     *)
(***************************************************************************)
LiveTexts == {"hi", "shoes"}
\* addEvent calls, clock granule and horizon of SpecLive
LiveAdds == 4
LiveStep == 500
LiveHorizon == 5000

InitOwe == owed = {}

\* the time the entry event n goes into was created: now for a new entry,
\* the creation time of the entry it is merged into otherwise
firstOf(existing) ==
  IF shouldMerge(existing, now)
    THEN (CHOOSE e \in owed : e.n = existing.eid).first
    ELSE now

\* one addEvent call, early enough for its timer to be due within the horizon
LV_AddEvent(u, text) ==
  /\ evCount < LiveAdds
  /\ now + waitTimeMs <= LiveHorizon
  /\ addEvent(u, text, "", "")
  /\ owed' = owed \cup {[n |-> evCount + 1, user |-> u, first |-> firstOf(buffer[u])]}
  /\ UNCHANGED <<now, othersLive>>

\* a due timer runs; if it finds an entry the callback is called for the user
LV_FireTimer(x) ==
  /\ x.due <= now
  /\ fireTimer(x)
  /\ owed' = IF buffer[x.user] # NoEvent THEN {e \in owed : e.user # x.user} ELSE owed
  /\ UNCHANGED <<now, othersLive>>

\* the clock advances to the next granule or to the next due time, whichever
\* comes first, and only when no pending timer is due
LV_Tick ==
  LET dues == {x.due : x \in {y \in timers : y.due <= now + LiveStep}}
      next == IF dues = {} THEN now + LiveStep
              ELSE CHOOSE d \in dues : \A d2 \in dues : d <= d2
  IN
  /\ \A x \in timers : x.due > now
  /\ next <= LiveHorizon
  /\ now' = next
  /\ UNCHANGED <<varsEB, varsOwe, othersLive>>

NextLive ==
  \/ \E text \in LiveTexts : LV_AddEvent(BufUser, text)
  \/ \E x \in timers : LV_FireTimer(x)
  \/ LV_Tick

Owes(n) == \E e \in owed : e.n = n

\* C40: with timers that run when due, every event added is followed by a
\* callback for its user, and the clock never passes waitTimeMs + 500 ms
\* after the creation of its buffer entry while the callback is outstanding;
\* follow-up events merged into the entry do not move that limit.
C40_FlushedWithinBound ==
  /\ [](\A e \in owed : now <= e.first + waitTimeMs + SETTLE_MS)
  /\ \A n \in 1..LiveAdds : Owes(n) ~> ~Owes(n)

\* C40 witness: an entry created at time 0 and merged into twice, the last
\* time 1500 ms later, has just been handed to the callback at 2000, with no
\* event of the user left waiting
C40_Witness ==
  /\ now = waitTimeMs
  /\ \E c \in cbLog : c.evs = {1, 2, 3} /\ c.user = "u1"
  /\ owed = {} /\ timers = {}

(***************************************************************************)
(* POST /webhook (src/src/server.ts:72-155)                                *)
(***************************************************************************)
MAX_MESSAGE_CHARS == 800
GLOBAL_RATE_LIMIT_MAX == 200
MAX_EVENT_AGE_MS == 600000

\* events a behaviour may deliver, clock granule and horizon of Spec
MaxPosts == 2
\* what is left of the rate limiter's window in the first state of SpecFull
UsedWindowLeft == 10000
WebStep == 450000
WebHorizon == 1000000

\* clampText(input, maxChars) on a trimmed input
clampText(text, maxChars) ==
  IF Len(text) <= maxChars THEN text ELSE SubSeq(text, 1, maxChars) \o "..."

\* entryTime && (Date.now() - entryTime) > MAX_EVENT_AGE_MS
tooOld(entryTime, t) == entryTime # 0 /\ (t - entryTime) > MAX_EVENT_AGE_MS

\* A variant of the replay check with the expiry comparison inverted.
replayRejectsInverted(mid) == mid # "" /\ store[mid] # NoEntry /\ store[mid] <= now

\* mid && replayCache.seen(mid)
replayRejects(mid) == mid # "" /\ seenResult(store, mid, now)

\* A variant of the loop's replay check that never records the id.
replayStoreForgetful(mid) == cleanup(store, now)

\* what `mid && replayCache.seen(mid)` leaves in the ReplayCache
replayStore(mid) == seenStore(store, mid, now)

\* the history kept per message id: what the loop did with the sighting that
\* recorded the id, and when the id last reached addEvent
NoSighting == [fate |-> "", addedAt |-> NoEntry]

\* the body of the event loop for one messaging event (lines 101-152)
processEvent(u, text, img, mid, entryTime) ==
  LET old == tooOld(entryTime, now)
      dup == replayRejects(mid)
      limited == ~dup /\ ~old /\ ~allowEventResult(buckets, u, now, RATE_LIMIT_MAX_EVENTS)
      accepted == ~dup /\ ~old /\ ~limited
      fate == IF dup THEN "replay" ELSE IF old THEN "age"
              ELSE IF limited THEN "rate" ELSE "added"
      again == mid # "" /\ rcExpiry[mid] # NoEntry /\ now < rcExpiry[mid]
  IN
  /\ IF mid # ""
       THEN store' = replayStore(mid) /\ SeenHistory(mid)
       ELSE UNCHANGED varsRC
  /\ IF ~dup /\ ~old
       THEN /\ buckets' = allowEventBuckets(buckets, u, now, RATE_LIMIT_WINDOW_MS,
                                            RATE_LIMIT_MAX_EVENTS)
            /\ AllowHistory(u, RATE_LIMIT_WINDOW_MS, RATE_LIMIT_MAX_EVENTS)
       ELSE UNCHANGED varsRL
  /\ IF accepted
       THEN addEvent(u, clampText(text, MAX_MESSAGE_CHARS), img, mid)
       ELSE UNCHANGED varsEB
  /\ lastPost' = [mid |-> mid, at |-> now,
                  redelivery |-> again,
                  added |-> accepted,
                  quiet |-> varsEB' = varsEB,
                  fate |-> fate,
                  first |-> IF again THEN lastPost.log[mid].fate ELSE "",
                  prevAdd |-> IF mid # "" THEN lastPost.log[mid].addedAt ELSE NoEntry,
                  log |-> IF mid = "" THEN lastPost.log
                          ELSE [lastPost.log EXCEPT ![mid] =
                                  [fate |-> IF again THEN @.fate ELSE fate,
                                   addedAt |-> IF accepted THEN now ELSE @.addedAt]]]

InitWeb == /\ gBuckets = [k \in {"global"} |-> NoBucket]
           /\ postCount = 0
           /\ lastPost = [mid |-> "", at |-> 0, redelivery |-> FALSE, added |-> FALSE,
                          quiet |-> TRUE, fate |-> "", first |-> "", prevAdd |-> NoEntry,
                          log |-> [m \in Mids |-> NoSighting]]

\* POST /webhook with one messaging event: the global limiter, then the loop
Post(u, text, img, mid, entryTime) ==
  /\ postCount < MaxPosts
  /\ text # "" \/ img # ""
  /\ postCount' = postCount + 1
  /\ gBuckets' = allowEventBuckets(gBuckets, "global", now, RATE_LIMIT_WINDOW_MS,
                                   GLOBAL_RATE_LIMIT_MAX)
  /\ IF allowEventResult(gBuckets, "global", now, GLOBAL_RATE_LIMIT_MAX)
       THEN processEvent(u, text, img, mid, entryTime)
       ELSE UNCHANGED <<varsRC, varsRL, varsEB, lastPost>>
  /\ UNCHANGED <<now, othersWeb>>

\* rateLimiter.startAutoCleanup(60000)
Web_CleanExpired ==
  /\ buckets' = cleanExpired(buckets, now)
  /\ buckets' # buckets
  /\ UNCHANGED <<now, rlLast, rlWin, varsRC, varsEB, varsWeb, othersWeb>>

Web_Tick == /\ Tick(WebStep, WebHorizon)
            /\ UNCHANGED <<varsRC, varsRL, varsEB, varsWeb, othersWeb>>

Next ==
  \/ \E u \in Users, p \in {<<"hi", "">>, <<"", "img">>}, mid \in MidsOrNone,
        age \in {0, MAX_EVENT_AGE_MS + 1} :
       Post(u, p[1], p[2], mid, now - age)
  \/ \E x \in timers : EB_FireTimer(x)
  \/ \E c \in turns : EB_Resolve(c)
  \/ \E c \in turns : EB_Reject(c)
  \/ Web_CleanExpired
  \/ Web_Tick

\* C3: a delivery of a message id that was already sighted less than
\* REPLAY_TTL_MS ago never reaches EventBuffer.addEvent and leaves the buffer,
\* its timers, the pending handleConversation calls and the replies untouched.
C3_ReplaySuppressed ==
  lastPost.redelivery => (~lastPost.added /\ lastPost.quiet)

\* C3 witness: a redelivery was dropped, some time after the first delivery,
\* while the first delivery's turn had reached handleConversation and a reply.
C3_Witness ==
  /\ lastPost.redelivery /\ lastPost.at > 0 /\ ~lastPost.added
  /\ \E c \in cbLog : c.mid = lastPost.mid /\ c.tid \in replies

\* C36: each message id reaches EventBuffer.addEvent at most once within
\* REPLAY_TTL_MS, and a delivery of an id whose recorded sighting was dropped
\* by the age check or by the per-user rate limiter less than REPLAY_TTL_MS
\* ago is dropped by the replay check.
C36_AddedAtMostOncePerTtl ==
  lastPost.mid # "" =>
    /\ (lastPost.added /\ lastPost.prevAdd # NoEntry)
          => lastPost.at - lastPost.prevAdd >= REPLAY_TTL_MS
    /\ (lastPost.redelivery /\ lastPost.first \in {"age", "rate"})
          => (lastPost.fate = "replay" /\ lastPost.quiet)

\* C36 witness: an id first sighted in an event the per-user rate limiter
\* dropped is delivered again, after the limiter's window has elapsed and
\* inside the replay TTL, and is dropped as a replay.
C36_Witness ==
  /\ lastPost.redelivery /\ lastPost.first = "rate" /\ lastPost.fate = "replay"
  /\ lastPost.at >= RATE_LIMIT_WINDOW_MS

(***************************************************************************)
(* Circuit breaker, response cache and request de-duplication              *)
(* (src/src/core/ai.ts)                                                    *)
(***************************************************************************)
\* the sanitized, clamped message texts a cache key is built from
Queries == {"q1"}
\* the users that talk to the assistant
AiUsers == {"u1"}
\* cacheKey = `history:${userId}:${safeUser.slice(0, 50)}:${!!lead}`
\* the prefix of the cache keys of generateAiReply ("simple:...")
SimpleKey == "simple"
CacheKeys == (AiUsers \cup {SimpleKey}) \X Queries
\* responseCache.get(key) === undefined
NoCache == -1

CACHE_TTL == 300000
CIRCUIT_BREAKER_THRESHOLD == 5
CIRCUIT_BREAKER_TIMEOUT == 60000
\* const aiRateLimiter = new RateLimiter(30_000, 4)
aiRateWindowMs == 30000
aiRateMaxEvents == 4

\* bounds of the model: calls started, calls in flight, clock granule, horizon
MaxAiCalls == 6
MaxInflight == 2
CBStep == 60000
CBHorizon == 60000

\* isCircuitBreakerOpen() with the window still open at the instant it ends
isCircuitBreakerOpenStale(resetTime, t) == resetTime > 0 /\ resetTime >= t

\* isCircuitBreakerOpen(): the value it returns
isCircuitBreakerOpen(resetTime, t) == resetTime > t

\* isCircuitBreakerOpen(): <<failures, resetTime>> after the call; an elapsed
\* window is cleared by the first check that observes it
breakerAfterCheck(failures, resetTime, t) ==
  IF isCircuitBreakerOpen(resetTime, t) THEN <<failures, resetTime>>
  ELSE IF resetTime > 0 /\ resetTime <= t THEN <<0, 0>>
  ELSE <<failures, resetTime>>

\* recordCircuitBreakerFailure() with a strict comparison against the threshold
recordCircuitBreakerFailureStrict(failures, resetTime, t) ==
  <<failures + 1,
    IF failures + 1 > CIRCUIT_BREAKER_THRESHOLD
      THEN t + CIRCUIT_BREAKER_TIMEOUT ELSE resetTime>>

\* recordCircuitBreakerFailure(): <<failures, resetTime>> after the call
recordCircuitBreakerFailure(failures, resetTime, t) ==
  <<failures + 1,
    IF failures + 1 >= CIRCUIT_BREAKER_THRESHOLD
      THEN t + CIRCUIT_BREAKER_TIMEOUT ELSE resetTime>>

\* a success that closes the breaker's count altogether
resetOnSuccess(failures) == 0

\* "Reset circuit breaker on success": Math.max(0, circuitBreakerFailures - 1)
decrementOnSuccess(failures) ==
  IF failures > 0 THEN (IF failures - 1 > 0 THEN failures - 1 ELSE 0) ELSE failures

\* a cache lookup that still returns an entry at the instant its TTL ends
cacheHitInclusive(cache, key, t) == cache[key] # NoCache /\ t - cache[key] <= CACHE_TTL

\* cached && Date.now() - cached.timestamp < CACHE_TTL
cacheHit(cache, key, t) == cache[key] # NoCache /\ t - cache[key] < CACHE_TTL

\* cleanExpiredCache()
cleanExpiredCache(cache, t) ==
  [k \in CacheKeys |->
     IF cache[k] # NoCache /\ t - cache[k] > CACHE_TTL THEN NoCache ELSE cache[k]]

\* history: the outcomes the breaker recorded since it was last reset, most
\* recent last, at most CIRCUIT_BREAKER_THRESHOLD of them ("F" an exception,
\* "S" a non-empty completion)
Recorded(o) ==
  LET s == Append(outcomes, o)
  IN IF Len(s) > CIRCUIT_BREAKER_THRESHOLD THEN Tail(s) ELSE s

NeverOpened == [window |-> <<>>, count |-> 0]

\* history kept when a failure is recorded
FailureHistory(after) ==
  /\ outcomes' = Recorded("F")
  /\ opening' = IF after[2] = now + CIRCUIT_BREAKER_TIMEOUT
                  THEN [window |-> Recorded("F"), count |-> after[1]]
                  ELSE opening

\* history kept when a success is recorded
SuccessHistory ==
  /\ outcomes' = Recorded("S")
  /\ UNCHANGED opening

\* history kept when a call checks the breaker
CheckHistory(path) ==
  LET after == breakerAfterCheck(circuitBreakerFailures, circuitBreakerResetTime, now)
      cleared == circuitBreakerResetTime > 0 /\ after[2] = 0
  IN /\ lastCheck' = [elapsed |-> circuitBreakerResetTime > 0
                                  /\ now >= circuitBreakerResetTime,
                      path |-> path,
                      closed |-> after = <<0, 0>>,
                      reclosed |-> lastCheck.reclosed \/ cleared]
     /\ outcomes' = IF cleared THEN <<>> ELSE outcomes
     /\ opening' = IF cleared THEN NeverOpened ELSE opening

\* the handle of a new request: the first free slot
FreeId(kind) ==
  CHOOSE i \in 1..(MaxInflight + 1) :
    /\ \A c \in calls : c.id # i
    /\ \A j \in 1..(i - 1) : \E c \in calls : c.id = j

\* the module state after fs backend failures in a row (none when fs = {0}),
\* with nothing in flight
InitCBWith(fs) ==
  /\ circuitBreakerFailures \in fs
  /\ circuitBreakerResetTime = 0
  /\ responseCache = [k \in CacheKeys |-> NoCache]
  /\ pendingRequests = [k \in CacheKeys |-> FALSE]
  /\ aiBuckets = [u \in AiUsers |-> NoBucket]
  /\ calls = {}
  /\ callCount = 0
  /\ outcomes = [i \in 1..circuitBreakerFailures |-> "F"]
  /\ opening = NeverOpened
  /\ backendWhileOpen = FALSE
  /\ lastCheck = [elapsed |-> FALSE, path |-> "none", closed |-> TRUE,
                  reclosed |-> FALSE]

InitCB == InitCBWith({0})

\* a call that never joins a pending request
replyPathNoJoin(open, hit, pending) ==
  IF open THEN "fallback" ELSE IF hit THEN "cache" ELSE "backend"

\* where a call of generateAiReplyWithHistory that passed the rate limiter
\* goes: breaker, then cache, then de-duplication, then a request of its own
replyPath(open, hit, pending) ==
  IF open THEN "fallback"
  ELSE IF hit THEN "cache"
  ELSE IF pending THEN "join"
  ELSE "backend"

\* generateAiReplyWithHistory(userId, userMessageText, lead) up to its first
\* await: rate limiter, breaker check, cache lookup, de-duplication, and the
\* start of the request (which suspends on the Promise.all of the reads)
generateAiReplyWithHistory(u, q) ==
  LET key == <<u, q>>
      allowed == allowEventResult(aiBuckets, u, now, aiRateMaxEvents)
      after == breakerAfterCheck(circuitBreakerFailures, circuitBreakerResetTime, now)
      path == replyPath(isCircuitBreakerOpen(circuitBreakerResetTime, now),
                        cacheHit(responseCache, key, now), pendingRequests[key])
  IN /\ callCount' = callCount + 1
     /\ aiBuckets' = allowEventBuckets(aiBuckets, u, now, aiRateWindowMs, aiRateMaxEvents)
     /\ IF ~allowed
          THEN UNCHANGED <<circuitBreakerFailures, circuitBreakerResetTime,
                           pendingRequests, calls, outcomes, opening,
                           lastCheck>>
          ELSE /\ circuitBreakerFailures' = after[1]
               /\ circuitBreakerResetTime' = after[2]
               /\ CheckHistory(path)
               /\ IF path = "backend"
                    THEN /\ calls' = calls \cup {[id |-> FreeId("reply"), kind |-> "reply",
                                                  user |-> u, query |-> q, pc |-> "fetch"]}
                         /\ pendingRequests' = [pendingRequests EXCEPT ![key] = TRUE]
                    ELSE UNCHANGED <<calls, pendingRequests>>
     /\ UNCHANGED <<responseCache, backendWhileOpen>>

\* refreshThreadSummary(userId) up to its first await (getChatHistory)
refreshThreadSummary(u) ==
  LET after == breakerAfterCheck(circuitBreakerFailures, circuitBreakerResetTime, now)
      open == isCircuitBreakerOpen(circuitBreakerResetTime, now)
  IN /\ callCount' = callCount + 1
     /\ circuitBreakerFailures' = after[1]
     /\ circuitBreakerResetTime' = after[2]
     /\ CheckHistory(IF open THEN "fallback" ELSE "backend")
     /\ calls' = IF open THEN calls
                 ELSE calls \cup {[id |-> FreeId("summary"), kind |-> "summary",
                                   user |-> u, query |-> "", pc |-> "fetch"]}
     /\ UNCHANGED <<responseCache, pendingRequests, aiBuckets, backendWhileOpen>>

\* the awaited reads resolved: the context is assembled and the request to
\* the generative backend is issued (chat.completions.create)
requestBackend(c) ==
  /\ calls' = (calls \ {c}) \cup {[c EXCEPT !.pc = "backend"]}
  /\ backendWhileOpen' = (backendWhileOpen \/ circuitBreakerResetTime > now)
  /\ UNCHANGED <<circuitBreakerFailures, circuitBreakerResetTime, responseCache,
                 pendingRequests, aiBuckets, callCount, outcomes, opening, lastCheck>>

\* finally { pendingRequests.delete(cacheKey) } of a reply request
pendingAfter(c) ==
  IF c.kind = "reply" THEN [pendingRequests EXCEPT ![<<c.user, c.query>>] = FALSE]
  ELSE pendingRequests

\* the backend answered a reply request with non-empty content
replyCompleted(c) ==
  /\ responseCache' = [responseCache EXCEPT ![<<c.user, c.query>>] = now]
  /\ circuitBreakerFailures' = decrementOnSuccess(circuitBreakerFailures)
  /\ pendingRequests' = pendingAfter(c)
  /\ calls' = calls \ {c}
  /\ SuccessHistory
  /\ UNCHANGED <<circuitBreakerResetTime, aiBuckets, callCount, backendWhileOpen,
                 lastCheck>>

\* A variant of the empty completion that stores its fallback in the cache.
emptyCompletionCached(c) ==
  /\ responseCache' = IF c.kind = "reply"
                         THEN [responseCache EXCEPT ![<<c.user, c.query>>] = now]
                         ELSE responseCache
  /\ pendingRequests' = pendingAfter(c)
  /\ calls' = calls \ {c}
  /\ UNCHANGED <<circuitBreakerFailures, circuitBreakerResetTime,
                 aiBuckets, callCount, outcomes, opening,
                 backendWhileOpen, lastCheck>>

\* the backend answered with empty content: fallback (reply) or warning (summary)
emptyCompletion(c) ==
  /\ pendingRequests' = pendingAfter(c)
  /\ calls' = calls \ {c}
  /\ UNCHANGED <<circuitBreakerFailures, circuitBreakerResetTime, responseCache,
                 aiBuckets, callCount, outcomes, opening,
                 backendWhileOpen, lastCheck>>

\* the backend call threw: catch { recordCircuitBreakerFailure() }
backendFailed(c) ==
  LET after == recordCircuitBreakerFailure(circuitBreakerFailures,
                                           circuitBreakerResetTime, now)
  IN /\ circuitBreakerFailures' = after[1]
     /\ circuitBreakerResetTime' = after[2]
     /\ FailureHistory(after)
     /\ pendingRequests' = pendingAfter(c)
     /\ calls' = calls \ {c}
     /\ UNCHANGED <<responseCache, aiBuckets, callCount, backendWhileOpen, lastCheck>>

\* the backend answered a summary request: await updateConversationSummary
summaryCompleted(c) ==
  /\ calls' = (calls \ {c}) \cup {[c EXCEPT !.pc = "persist"]}
  /\ UNCHANGED <<circuitBreakerFailures, circuitBreakerResetTime, responseCache,
                 pendingRequests, aiBuckets, callCount, outcomes, opening, backendWhileOpen, lastCheck>>

\* updateConversationSummary resolved (it never rejects): the success is recorded
summaryPersisted(c) ==
  /\ circuitBreakerFailures' = decrementOnSuccess(circuitBreakerFailures)
  /\ calls' = calls \ {c}
  /\ SuccessHistory
  /\ UNCHANGED <<circuitBreakerResetTime, responseCache, pendingRequests, aiBuckets,
                 callCount, backendWhileOpen, lastCheck>>

\* setInterval(() => { cleanExpiredCache(); aiRateLimiter.cleanExpired() }, 60000)
sweepAi ==
  /\ responseCache' = cleanExpiredCache(responseCache, now)
  /\ aiBuckets' = cleanExpired(aiBuckets, now)
  /\ UNCHANGED <<circuitBreakerFailures, circuitBreakerResetTime, pendingRequests,
                 calls, callCount, outcomes, opening,
                 backendWhileOpen, lastCheck>>

CB_Reply(u, q) ==
  /\ callCount < MaxAiCalls /\ Cardinality(calls) < MaxInflight
  /\ generateAiReplyWithHistory(u, q)
  /\ UNCHANGED <<now, othersCB>>

CB_Summary(u) ==
  /\ callCount < MaxAiCalls /\ Cardinality(calls) < MaxInflight
  /\ refreshThreadSummary(u)
  /\ UNCHANGED <<now, othersCB>>

CB_RequestBackend(c) ==
  /\ c.pc = "fetch"
  /\ requestBackend(c)
  /\ UNCHANGED <<now, othersCB>>

\* refreshThreadSummary: if (recent.length < 20) return
CB_SummaryShort(c) ==
  /\ c.kind = "summary" /\ c.pc = "fetch"
  /\ emptyCompletion(c)
  /\ UNCHANGED <<now, othersCB>>

CB_ReplyCompleted(c) ==
  /\ c.kind = "reply" /\ c.pc = "backend"
  /\ replyCompleted(c)
  /\ UNCHANGED <<now, othersCB>>

CB_SummaryCompleted(c) ==
  /\ c.kind = "summary" /\ c.pc = "backend"
  /\ summaryCompleted(c)
  /\ UNCHANGED <<now, othersCB>>

CB_SummaryPersisted(c) ==
  /\ c.pc = "persist"
  /\ summaryPersisted(c)
  /\ UNCHANGED <<now, othersCB>>

CB_Empty(c) ==
  /\ c.pc = "backend"
  /\ emptyCompletion(c)
  /\ UNCHANGED <<now, othersCB>>

CB_Failed(c) ==
  /\ c.pc = "backend"
  /\ backendFailed(c)
  /\ UNCHANGED <<now, othersCB>>

CB_Sweep ==
  /\ sweepAi
  /\ <<responseCache, aiBuckets>>' # <<responseCache, aiBuckets>>
  /\ UNCHANGED <<now, othersCB>>

CB_Tick == /\ Tick(CBStep, CBHorizon)
           /\ UNCHANGED <<varsCB, othersCB>>

NextCB ==
  \/ \E u \in AiUsers, q \in Queries : CB_Reply(u, q)
  \/ \E u \in AiUsers : CB_Summary(u)
  \/ \E c \in calls : CB_RequestBackend(c)
  \/ \E c \in calls : CB_SummaryShort(c)
  \/ \E c \in calls : CB_ReplyCompleted(c)
  \/ \E c \in calls : CB_SummaryCompleted(c)
  \/ \E c \in calls : CB_SummaryPersisted(c)
  \/ \E c \in calls : CB_Empty(c)
  \/ \E c \in calls : CB_Failed(c)
  \/ CB_Sweep
  \/ CB_Tick

AllFailures(s) == \A i \in 1..Len(s) : s[i] = "F"

\* the number of failures at the end of s
FailRun(s) ==
  CHOOSE k \in 0..Len(s) :
    /\ \A i \in (Len(s) - k + 1)..Len(s) : s[i] = "F"
    /\ k = Len(s) \/ s[Len(s) - k] # "F"

C9_NoBackendWhileOpen == ~backendWhileOpen

\* C10 (as stated): the first call that checks the breaker after the open
\* window elapsed reaches the generative backend, by a request of its own or
\* by joining the pending request for its cache key.
C10_NextCallReachesBackend ==
  lastCheck.elapsed => lastCheck.path \in {"backend", "join"}

\* C10 (amended): a call that checks the breaker once the window has elapsed
\* (now >= circuitBreakerResetTime) is not short-circuited by the breaker and
\* leaves it closed with a zero counter; it goes on to the response cache, the
\* de-duplicator and, if neither answers, the backend.  From then on the
\* breaker is only opened by a failure that brings the counter to the threshold.
C10_ClosedAfterWindow ==
  /\ lastCheck.elapsed =>
       /\ lastCheck.path \in {"cache", "join", "backend"}
       /\ lastCheck.closed
  /\ (lastCheck.reclosed /\ circuitBreakerResetTime > 0) =>
       /\ opening.count >= CIRCUIT_BREAKER_THRESHOLD
       /\ Len(outcomes) >= CIRCUIT_BREAKER_THRESHOLD

\* C10 witness: a check at the very end of the window let the call through
\* to the backend and left the breaker closed
C10_Witness ==
  /\ lastCheck.elapsed /\ lastCheck.path = "backend" /\ lastCheck.closed
  /\ circuitBreakerResetTime = 0 /\ circuitBreakerFailures = 0
  /\ \E c \in calls : c.pc = "backend"

(***************************************************************************)
(* What the callers of generateAiReplyWithHistory and generateAiReply      *)
(* (src/src/core/ai.ts) get back.  A caller is answered at once (input     *)
(* validation, rate limiter, open breaker, cache hit) or awaits the        *)
(* request promise registered in pendingRequests, its own or the one it    *)
(* joined, and is answered when that request settles.                      *)
(***************************************************************************)
\* a message of more than 5000 characters
LongText == "<5001 characters>"
\* the userMessageText of a call
ReplyTexts == Queries \cup {"", " ", LongText}

\* the calls of a run of SpecReply
MaxReplyCalls == 5

\* !userMessageText || userMessageText.trim().length === 0, and
\* userMessageText.length > 5000: the input validation throws
replyRejects(text) == text \in {"", " "} \/ text = LongText

\* the catch of the request lets the exception through
resultOfRethrowing(cause) ==
  CASE cause \in {"invalid", "exception"} -> "throw"
    [] cause \in {"rate", "open", "empty", "stale"} -> "fallback"
    [] OTHER -> "reply"

\* what the caller gets: an error (the validation threw), a fixed fallback
\* text (rate limited, breaker open, empty completion, exception caught, or
\* the settled promise of a request that threw before it was registered) or
\* a generated reply (from the cache or from the backend)
resultOf(cause) ==
  CASE cause = "invalid" -> "throw"
    [] cause \in {"rate", "open", "empty", "exception", "stale"} -> "fallback"
    [] OTHER -> "reply"

\* history: the last answer and the number of callers that received it
Answered(text, cause, n) ==
  lastReturn' = [text |-> text, cause |-> cause, result |-> resultOf(cause),
                 receivers |-> n]

\* history: the request c settled for the reason `cause`
SettledRequest(c, cause) ==
  /\ Answered(c.query, cause, waiters[<<c.user, c.query>>])
  /\ waiters' = [waiters EXCEPT ![<<c.user, c.query>>] = 0]

InitRetWith(ks) ==
  /\ lastReturn = [text |-> "", cause |-> "none", result |-> "none", receivers |-> 0]
  /\ waiters = [k \in CacheKeys |-> 0]
  /\ apiKeyOk \in ks

InitRet == InitRetWith({TRUE})

\* the reply requests in flight for the cache key k
InFlight(k) == {c \in calls : c.kind = "reply" /\ <<c.user, c.query>> = k}

\* the breaker variables and histories a call leaves alone when it is
\* answered before the breaker check
breakerState == <<circuitBreakerFailures, circuitBreakerResetTime, outcomes, opening,
                  lastCheck>>

\* generateAiReplyWithHistory(userId, userMessageText): validation first
RP_Reply(u, text) ==
  LET key == <<u, text>>
      allowed == allowEventResult(aiBuckets, u, now, aiRateMaxEvents)
      path == replyPath(isCircuitBreakerOpen(circuitBreakerResetTime, now),
                        cacheHit(responseCache, key, now), pendingRequests[key])
  IN /\ callCount < MaxReplyCalls /\ Cardinality(calls) < MaxInflight
     /\ IF replyRejects(text)
          THEN /\ callCount' = callCount + 1
               /\ Answered(text, "invalid", 1)
               /\ UNCHANGED <<breakerState, responseCache, pendingRequests, aiBuckets,
                              calls, backendWhileOpen, waiters>>
          ELSE /\ generateAiReplyWithHistory(u, text)
               /\ IF ~allowed THEN Answered(text, "rate", 1) /\ UNCHANGED waiters
                  ELSE IF path = "fallback" THEN Answered(text, "open", 1) /\ UNCHANGED waiters
                  ELSE IF path = "cache" THEN Answered(text, "cache", 1) /\ UNCHANGED waiters
                  ELSE /\ waiters' = [waiters EXCEPT ![key] = @ + 1]
                       /\ UNCHANGED lastReturn
     /\ UNCHANGED <<now, apiKeyOk, othersReply>>

\* generateAiReply(userMessageText), after its validation: cache, breaker
\* check, de-duplication.  The request runs up to its first await before it
\* is registered: with the API key getOpenAI() returns and the backend call is
\* issued; without it getOpenAI() throws there, the catch records the failure,
\* the finally deletes the key and the settled promise is registered after it.
generateAiReply(text) ==
  LET key == <<SimpleKey, text>>
      after == breakerAfterCheck(circuitBreakerFailures, circuitBreakerResetTime, now)
      path == replyPath(isCircuitBreakerOpen(circuitBreakerResetTime, now),
                        FALSE, pendingRequests[key])
      failed == recordCircuitBreakerFailure(after[1], after[2], now)
      cleared == circuitBreakerResetTime > 0 /\ after[2] = 0
      appended == Append(IF cleared THEN <<>> ELSE outcomes, "F")
      recorded == IF Len(appended) > CIRCUIT_BREAKER_THRESHOLD
                    THEN Tail(appended) ELSE appended
  IN /\ callCount' = callCount + 1
     /\ IF cacheHit(responseCache, key, now)
          THEN UNCHANGED <<breakerState, pendingRequests, calls>>
          ELSE IF path = "backend" /\ ~apiKeyOk
          THEN /\ circuitBreakerFailures' = failed[1]
               /\ circuitBreakerResetTime' = failed[2]
               /\ lastCheck' = [elapsed |-> circuitBreakerResetTime > 0
                                            /\ now >= circuitBreakerResetTime,
                                path |-> path,
                                closed |-> after = <<0, 0>>,
                                reclosed |-> lastCheck.reclosed \/ cleared]
               /\ outcomes' = recorded
               /\ opening' = IF failed[2] = now + CIRCUIT_BREAKER_TIMEOUT
                               THEN [window |-> recorded, count |-> failed[1]]
                               ELSE IF cleared THEN NeverOpened ELSE opening
               /\ pendingRequests' = [pendingRequests EXCEPT ![key] = TRUE]
               /\ UNCHANGED calls
          ELSE /\ circuitBreakerFailures' = after[1]
               /\ circuitBreakerResetTime' = after[2]
               /\ CheckHistory(path)
               /\ IF path = "backend"
                    THEN /\ calls' = calls \cup {[id |-> FreeId("reply"), kind |-> "reply",
                                                  user |-> SimpleKey, query |-> text,
                                                  pc |-> "backend"]}
                         /\ pendingRequests' = [pendingRequests EXCEPT ![key] = TRUE]
                    ELSE UNCHANGED <<calls, pendingRequests>>
     /\ UNCHANGED <<responseCache, aiBuckets, backendWhileOpen>>

RP_Simple(text) ==
  LET key == <<SimpleKey, text>>
      path == IF cacheHit(responseCache, key, now) THEN "cache"
              ELSE replyPath(isCircuitBreakerOpen(circuitBreakerResetTime, now),
                             FALSE, pendingRequests[key])
  IN /\ callCount < MaxReplyCalls /\ Cardinality(calls) < MaxInflight
     /\ IF replyRejects(text)
          THEN /\ callCount' = callCount + 1
               /\ Answered(text, "invalid", 1)
               /\ UNCHANGED <<breakerState, responseCache, pendingRequests, aiBuckets,
                              calls, backendWhileOpen, waiters>>
          ELSE /\ generateAiReply(text)
               /\ IF path = "cache" THEN Answered(text, "cache", 1) /\ UNCHANGED waiters
                  ELSE IF path = "fallback" THEN Answered(text, "open", 1) /\ UNCHANGED waiters
                  ELSE IF path = "join" /\ InFlight(key) = {}
                    THEN Answered(text, "stale", 1) /\ UNCHANGED waiters
                  ELSE IF path = "backend" /\ ~apiKeyOk
                    THEN Answered(text, "exception", 1) /\ UNCHANGED waiters
                  ELSE /\ waiters' = [waiters EXCEPT ![key] = @ + 1]
                       /\ UNCHANGED lastReturn
     /\ UNCHANGED <<now, apiKeyOk, othersReply>>

\* the awaited reads of a generateAiReplyWithHistory request resolved and
\* getOpenAI() returned the client
RP_RequestBackend(c) ==
  /\ c.kind = "reply" /\ c.pc = "fetch" /\ apiKeyOk
  /\ requestBackend(c)
  /\ UNCHANGED <<now, varsRet, othersReply>>

\* the backend answered with non-empty content
RP_Completed(c) ==
  /\ c.kind = "reply" /\ c.pc = "backend" /\ apiKeyOk
  /\ replyCompleted(c)
  /\ SettledRequest(c, "completed")
  /\ UNCHANGED <<now, apiKeyOk, othersReply>>

\* the backend answered with empty content
RP_Empty(c) ==
  /\ c.kind = "reply" /\ c.pc = "backend" /\ apiKeyOk
  /\ emptyCompletion(c)
  /\ SettledRequest(c, "empty")
  /\ UNCHANGED <<now, apiKeyOk, othersReply>>

\* an awaited read, getOpenAI() or the backend call threw (exception or
\* timeout)
RP_Failed(c) ==
  /\ c.kind = "reply" /\ c.pc \in {"fetch", "backend"}
  /\ backendFailed(c)
  /\ SettledRequest(c, "exception")
  /\ UNCHANGED <<now, apiKeyOk, othersReply>>

RP_Tick == /\ Tick(CBStep, CBHorizon)
           /\ UNCHANGED <<varsCB, varsRet, othersReply>>

NextReply ==
  \/ \E u \in AiUsers, text \in ReplyTexts : RP_Reply(u, text)
  \/ \E text \in ReplyTexts : RP_Simple(text)
  \/ \E c \in calls : RP_RequestBackend(c)
  \/ \E c \in calls : RP_Completed(c)
  \/ \E c \in calls : RP_Empty(c)
  \/ \E c \in calls : RP_Failed(c)
  \/ RP_Tick

RequestSettles == \E c \in calls : calls' = calls \ {c}

\* the generateAiReply request threw before its first await: the caller is
\* answered with the exception's fallback in the step that started it, and the
\* settled promise is registered with no request in flight
ThrewAtStart ==
  /\ calls' = calls /\ callCount' = callCount + 1
  /\ pendingRequests' # pendingRequests
  /\ lastReturn'.cause = "exception"

CacheStep == 300000
CacheHorizon == 600000

Cache_Tick == /\ Tick(CacheStep, CacheHorizon)
              /\ UNCHANGED <<varsCB, varsRet, othersReply>>

NextCache ==
  \/ \E u \in AiUsers, q \in Queries : RP_Reply(u, q)
  \/ \E q \in Queries : RP_Simple(q)
  \/ \E c \in calls : RP_RequestBackend(c)
  \/ \E c \in calls : RP_Completed(c)
  \/ \E c \in calls : RP_Empty(c)
  \/ \E c \in calls : RP_Failed(c)
  \/ CB_Sweep
  \/ Cache_Tick

\* the key has an entry younger than CACHE_TTL
Fresh(k) == responseCache[k] # NoCache /\ now - responseCache[k] < 300000
\* the key has an entry whose age has reached CACHE_TTL
Expired(k) == responseCache[k] # NoCache /\ now - responseCache[k] >= 300000
\* the call is answered in its own step, for the reason `cause`, and neither
\* starts nor joins a request
AnsweredAtOnce(causes) ==
  lastReturn'.cause \in causes /\ calls' = calls /\ waiters' = waiters
\* the call awaits a request for its key, its own or the pending one
AwaitsRequest(k) == waiters'[k] = waiters[k] + 1
\* the call starts a request of its own
StartsRequest(k) == \E c \in calls' \ calls : <<c.user, c.query>> = k
\* the rate limiter admits the user's call and the breaker is not open
Passes(u) ==
  /\ allowEventResult(aiBuckets, u, now, aiRateMaxEvents)
  /\ ~(circuitBreakerResetTime > now)

\* C32 (as stated): a request whose key has an entry younger than CACHE_TTL
\* is answered with it and starts no request; an entry whose age has reached
\* the TTL is never returned and the next request for its key goes to the
\* backend (by a request of its own or the pending one for the key).
C32_FreshEntryAnswers ==
  [][\A u \in AiUsers, q \in Queries :
       RP_Reply(u, q) =>
         /\ Fresh(<<u, q>>) => AnsweredAtOnce({"cache"})
         /\ Expired(<<u, q>>) => AwaitsRequest(<<u, q>>)]_vars

\* C32 (amended): a generateAiReplyWithHistory call that the rate limiter
\* admits while the breaker is not open is answered from a cache entry younger
\* than CACHE_TTL and starts no request; a refused call gets the fixed fallback
\* even when such an entry exists.  generateAiReply looks the cache up first and
\* always answers from such an entry.  An entry whose age has reached the TTL is
\* never returned: a call that passes limiter and breaker awaits a request for
\* the key, its own unless one is pending.
C32_FreshEntryAnswersAdmitted ==
  [][/\ \A u \in AiUsers, q \in Queries :
          RP_Reply(u, q) =>
            /\ (Fresh(<<u, q>>) /\ Passes(u)) => AnsweredAtOnce({"cache"})
            /\ (Fresh(<<u, q>>) /\ ~Passes(u)) => AnsweredAtOnce({"rate", "open"})
            /\ Expired(<<u, q>>) =>
                  /\ AnsweredAtOnce({"rate", "open"}) \/ AwaitsRequest(<<u, q>>)
                  /\ Passes(u) =>
                        /\ AwaitsRequest(<<u, q>>)
                        /\ ~pendingRequests[<<u, q>>] => StartsRequest(<<u, q>>)
     /\ \A q \in Queries :
          RP_Simple(q) =>
            /\ Fresh(<<SimpleKey, q>>) => AnsweredAtOnce({"cache"})
            /\ Expired(<<SimpleKey, q>>) =>
                  \/ AnsweredAtOnce({"open", "stale"})
                  \/ AwaitsRequest(<<SimpleKey, q>>)]_vars

\* an entry that has just reached its TTL is still stored, and the call for its
\* key has started a request of its own
C32_Witness ==
  \E k \in CacheKeys :
    /\ Expired(k) /\ now - responseCache[k] = CACHE_TTL
    /\ \E c \in calls : <<c.user, c.query>> = k
    /\ waiters[k] = 1
    /\ lastReturn.cause = "cache"

\* the causes for which the caller gets a fixed fallback text
FallbackCauses == {"rate", "open", "empty", "exception", "stale"}

\* C37: an entry is written to the response cache only in the step in which
\* the backend request of its key completes with non-empty content, with the
\* reply of that completion; a step that answers a caller with a fallback
\* (rate limited, breaker open, empty output, exception) writes nothing, and
\* an answer taken from the cache is a generated reply.
C37_CacheHoldsCompletionsOnly ==
  [][
      /\ \A k \in CacheKeys :
          (responseCache'[k] # responseCache[k] /\ responseCache'[k] # NoCache) =>
            /\ \E c \in InFlight(k) : c.pc = "backend" /\ calls' = calls \ {c}
            /\ lastReturn'.cause = "completed" /\ lastReturn'.result = "reply"
            /\ responseCache'[k] = now
      /\ ((RequestSettles \/ callCount' # callCount)
             /\ lastReturn' # lastReturn /\ lastReturn'.cause \in FallbackCauses) =>
            \A k \in CacheKeys : responseCache'[k] \in {responseCache[k]}
      /\ lastReturn'.cause = "cache" => lastReturn'.result = "reply"]_vars

\* C37 witness: a request of a key whose cached reply has expired ended in
\* the empty-output fallback, and the cache still holds the older reply only
C37_Witness ==
  \E k \in CacheKeys :
    /\ responseCache[k] # NoCache /\ now - responseCache[k] >= CACHE_TTL
    /\ lastReturn.cause = "empty" /\ lastReturn.text = k[2] /\ ~pendingRequests[k]

(***************************************************************************)
(* The keys of the response cache of generateAiReplyWithHistory            *)
(* (src/src/core/ai.ts:308-322, 408): the Map is keyed by a string built   *)
(* from the user id, the first 50 characters of the sanitized message and  *)
(* whether a lead was passed.                                              *)
(***************************************************************************)
\* sender ids as sanitizeSenderId lets them through: /^\d+$/
KeyUsers == {"1", "12"}
\* sanitized and clamped messages (safeUser); the last one has 51 characters
KeyMsgs == {"hi", "2:hi", "2hi", "aaaaaaaaaabbbbbbbbbbccccccccccddddddddddeeeeeeeeeef"}
\* the entries a run of SpecKey keeps in the cache
MaxEntries == 2
SLICE_LEN == 50

\* safeUser.slice(0, 50)
slice50(m) == IF Len(m) <= SLICE_LEN THEN m ELSE SubSeq(m, 1, SLICE_LEN)

\* `${!!lead}`
leadFlag(lead) == IF lead THEN "true" ELSE "false"

\* A variant of the key with no separator after the user id.
cacheKeyUnseparated(u, m, lead) == "history:" \o u \o slice50(m) \o ":" \o leadFlag(lead)

\* `history:${userId}:${safeUser.slice(0, 50)}:${!!lead}`
cacheKey(u, m, lead) == "history:" \o u \o ":" \o slice50(m) \o ":" \o leadFlag(lead)

NoLookup == [user |-> "", msg |-> "", hit |-> FALSE, owner |-> ""]

InitKey == keyed = [cache |-> {}, last |-> NoLookup]

\* responseCache.set(cacheKey, ...) of a completed request of user u
KY_Store(u, m, lead) ==
  LET key == cacheKey(u, m, lead)
      kept == {e \in keyed.cache : e.key # key}
  IN /\ Cardinality(kept) < MaxEntries
     /\ keyed' = [keyed EXCEPT !.cache = kept \cup {[key |-> key, owner |-> u, msg |-> m]}]
     /\ UNCHANGED <<now, othersKey>>

\* responseCache.get(cacheKey) of a call made for user u
KY_Lookup(u, m, lead) ==
  LET key == cacheKey(u, m, lead)
      found == {e \in keyed.cache : e.key = key}
  IN /\ keyed' = [keyed EXCEPT !.last =
                    [user |-> u, msg |-> m, hit |-> found # {},
                     owner |-> IF found = {} THEN "" ELSE (CHOOSE e \in found : TRUE).owner]]
     /\ UNCHANGED <<now, othersKey>>

NextKey ==
  \/ \E u \in KeyUsers, m \in KeyMsgs, lead \in BOOLEAN : KY_Store(u, m, lead)
  \/ \E u \in KeyUsers, m \in KeyMsgs, lead \in BOOLEAN : KY_Lookup(u, m, lead)

\* C39: with numeric user ids, the entry a call of generateAiReplyWithHistory
\* for one user finds in the cache was stored by a request of that user,
\* whatever messages the users send.
C39_CacheIsolation ==
  keyed.last.hit => keyed.last.owner = keyed.last.user

\* C39 witness: user 12 is answered from the cache with its own entry while
\* the cache also holds an entry of user 1 for a message that begins with
\* "2", the digit the two ids differ by
C39_Witness ==
  /\ keyed.last.hit /\ keyed.last.user = "12" /\ keyed.last.owner = "12"
  /\ \E e \in keyed.cache : e.owner = "1" /\ e.msg \in {"2:hi", "2hi"}

(***************************************************************************)
(* handleConversation (src/src/core/conversation.ts), started by the       *)
(* EventBuffer callback of POST /webhook (src/src/server.ts).  A turn is    *)
(* followed through the awaits at which it reads or writes the Lead or the  *)
(* orders; the awaits on the message history and on the reply generation    *)
(* touch neither and are folded into the step before them.                  *)
(***************************************************************************)
\* the users whose conversations are followed
ConvUsers == {"u1"}
\* the message texts of the model; "" is the text of an image-only turn
ConvMsgs == {"hi", "show shoes", "yes", "no", "edit", "Ann, 012345678, PP", "I'll take it"}
TurnInputs == {<<m, FALSE>> : m \in ConvMsgs} \cup {<<"", TRUE>>}

\* bounds of the model: turns started, turns in flight
MaxTurns == 3
MaxConvInflight == 2

\* "leave the column alone" in an updateLead patch (updates.x === undefined)
KeepS == "<keep>"
KeepN == -1
KeepId == <<-1>>
KeepProducts == <<[id |-> KeepN, price |-> KeepN]>>
\* a pendingOrder built by the turn; it is named when it is written
NewPO == -2

\* pendingOrder: null, and "leave the column alone"
NullOrder == [id |-> 0, items |-> <<>>, total |-> 0]
KeepOrder == [id |-> KeepN, items |-> <<>>, total |-> 0]

\* a product the retrieval returns without a price
NoPrice == -1
\* what retrieveSimilarContext* returns: nothing, or products by similarity
Retrieved ==
  {<<>>,
   <<[id |-> 1, price |-> 25], [id |-> 2, price |-> NoPrice]>>,
   <<[id |-> 2, price |-> NoPrice]>>}

\* p.price || 0
priceOrZero(x) == IF x = NoPrice \/ x = 0 THEN 0 ELSE x

\* allProducts.slice(0, 5).map(p => ({id, name, price: p.price || 0, similarity}))
productsToStore(allProducts) ==
  [i \in 1..(IF Len(allProducts) < 5 THEN Len(allProducts) ELSE 5) |->
     [id |-> allProducts[i].id, price |-> priceOrZero(allProducts[i].price)]]

\* the order assembled from the second product shown
pendingOrderFromSecond(shown) ==
  LET p == shown[Len(shown)]
  IN [id |-> NewPO,
      items |-> <<[productId |-> p.id, quantity |-> 1, price |-> priceOrZero(p.price)]>>,
      total |-> priceOrZero(p.price)]

\* lead.lastShownProducts.slice(0, 1).map(...) and the total of those items
pendingOrderFrom(shown) ==
  LET p == shown[1]
  IN [id |-> NewPO,
      items |-> <<[productId |-> p.id, quantity |-> 1, price |-> priceOrZero(p.price)]>>,
      total |-> priceOrZero(p.price) * 1]

\* no row for the user in the leads table
NoLead == [stage |-> "none", item |-> "", name |-> "", phone |-> "", email |-> "",
           address |-> "", pendingOrder |-> NullOrder, lastOrderId |-> <<>>,
           lastShownProducts |-> <<>>]
\* the row getOrCreateLead inserts
NewLead == [NoLead EXCEPT !.stage = "ask_item"]
\* a Lead about to confirm its first order: the state a fresh Lead reaches by
\* "show shoes" (two products found), "I'll take it", "Ann, 012345678, PP", "yes"
ConfirmLead == [stage |-> "confirm_order", item |-> "I'll take it", name |-> "Ann",
                phone |-> "+85512345678", email |-> "", address |-> "PP",
                pendingOrder |-> [id |-> 1,
                                  items |-> <<[productId |-> 1, quantity |-> 1, price |-> 25]>>,
                                  total |-> 25],
                lastOrderId |-> <<>>,
                lastShownProducts |-> <<[id |-> 1, price |-> 25], [id |-> 2, price |-> 0]>>]
InitialLeads == {NoLead, ConfirmLead}
\* a Lead sent back to ask_name with its order gone: the state ConfirmLead
\* reaches when the turns "no", "I'll take it" and "no" overlap
EditedLead == [ConfirmLead EXCEPT !.stage = "ask_name", !.pendingOrder = NullOrder]
\* a Lead with an order pending whose name and phone are collected: the state
\* NoLead reaches by a product query, a purchase and two single-field turns
CollectingLead == [ConfirmLead EXCEPT !.stage = "ask_email", !.name = "hi",
                                      !.phone = "hi", !.address = ""]

NoPatch == [stage |-> KeepS, item |-> KeepS, name |-> KeepS, phone |-> KeepS,
            email |-> KeepS, address |-> KeepS, pendingOrder |-> KeepOrder,
            lastOrderId |-> KeepId, lastShownProducts |-> KeepProducts]

\* updateLead(userId, updates): the row after the update
updateLead(lead, p, po) ==
  [stage |-> IF p.stage = KeepS THEN lead.stage ELSE p.stage,
   item |-> IF p.item = KeepS THEN lead.item ELSE p.item,
   name |-> IF p.name = KeepS THEN lead.name ELSE p.name,
   phone |-> IF p.phone = KeepS THEN lead.phone ELSE p.phone,
   email |-> IF p.email = KeepS THEN lead.email ELSE p.email,
   address |-> IF p.address = KeepS THEN lead.address ELSE p.address,
   pendingOrder |-> IF p.pendingOrder.id = KeepN THEN lead.pendingOrder
                    ELSE IF p.pendingOrder.id = NewPO
                      THEN [p.pendingOrder EXCEPT !.id = po]
                    ELSE p.pendingOrder,
   lastOrderId |-> IF p.lastOrderId = KeepId THEN lead.lastOrderId ELSE p.lastOrderId,
   lastShownProducts |-> IF p.lastShownProducts = KeepProducts THEN lead.lastShownProducts
                         ELSE p.lastShownProducts]

\* getOrCreateLead(userId): the row it returns (inserted when missing)
getOrCreateLead(lead) == IF lead = NoLead THEN NewLead ELSE lead

\* /^(hi|hello|hey|...)[!.,\s]*$/i.test(lower) || msg.length < 2
looksLikeGreeting(m) == m \in {"hi", "hello", "hey", "", "."}
\* every confirmation-shaped message is taken for an affirmative token
isAffirmativeLoose(m) == m \in {"yes", "confirm", "ok", "I'll take it"}
\* lower === 'yes' || lower === 'confirm' || lower === 'ok'
isAffirmative(m) == m \in {"yes", "confirm", "ok"}
\* no message is taken for an edit token
isEditNever(m) == FALSE
\* lower === 'edit' || lower === 'change' || lower === 'update'
isEdit(m) == m \in {"edit", "change", "update"}
\* no message is taken for a negative token
isNegativeNever(m) == FALSE
\* lower === 'no' || lower === 'cancel'
isNegative(m) == m \in {"no", "cancel"}
\* confirmKeywords.some(k => lowerMsg.includes(k)) && lowerMsg.length < 100
isLikelyConfirming(m) == m \in {"yes", "confirm", "I'll take it"}
\* the product-query regular expression
isProductQuery(m) == m \in {"show shoes"}
\* msg.split(',').map(trim).filter(non-empty)
commaParts(m) ==
  IF m = "Ann, 012345678, PP" THEN <<"Ann", "012345678", "PP">>
  ELSE IF m = "" THEN <<>> ELSE <<m>>
\* normalizePhone(phone, 'KH').e164 ?? phone: a valid number in E.164 form,
\* anything else as it was typed
normalizedPhone(phone) == IF phone = "012345678" THEN "+85512345678" ELSE phone
\* no message skips the e-mail
skipEmailNever(m) == FALSE
\* msg.trim() === '.' || msg.toLowerCase().includes('skip')
skipEmail(m) == m \in {".", "skip"}
\* a message of LongFieldChars characters with no comma in it
LongField == "<200 characters>"
LongFieldChars == 200
\* z.string().trim().max(max)
fits(m, max) == ~(m = LongField /\ LongFieldChars > max)
\* z.string().trim().email().max(254)
validEmail(m) == m \in {"ann@shop.io"}
\* no Lead is taken to have a pending order
hasPendingOrderNever(lead) == FALSE
\* every Lead is taken to have a pending order
hasPendingOrderAlways(lead) == TRUE
\* lead.pendingOrder && lead.pendingOrder.items && lead.pendingOrder.items.length > 0
hasPendingOrder(lead) ==
  lead.pendingOrder # NullOrder /\ Len(lead.pendingOrder.items) > 0
\* lead.name && lead.phone && lead.address
hasCompleteInfo(lead) == lead.name # "" /\ lead.phone # "" /\ lead.address # ""

\* the steps a turn still has to take after reading the Lead: await an
\* updateLead ("write"; "finalize" is the one inside the order commit's try),
\* await findOrCreateCustomer or createOrder, and at last resolve with a
\* reply or reject
Step(op, p, reply) == [op |-> op, patch |-> p, reply |-> reply]
Write(p) == Step("write", p, "")
Resolve(reply) == Step("resolve", NoPatch, reply)
Reject == Step("reject", NoPatch, "")
\* the turn rejects with the error a persistence call threw
Thrown(why) == Step("reject", NoPatch, why)

\* the second updateLead of the confirmation shortcut
stageAfterShortcut(lead) ==
  IF hasCompleteInfo(lead)
    THEN <<Write([NoPatch EXCEPT !.stage = "show_order_summary"]), Resolve("reconfirmInfo")>>
    ELSE <<Write([NoPatch EXCEPT !.stage = "ask_name"]), Resolve("askName")>>

\* a general-chat section that moves every Lead on to the collection of the name
generalChatAdvancing(lead, m, img, found) ==
  <<Write([NoPatch EXCEPT !.stage = "ask_name"]), Resolve("ai")>>

\* no message takes the confirmation shortcut
confirmsShownProductNever(lead, m) == FALSE
\* isLikelyConfirmingEarly && hasProductsToConfirm
confirmsShownProduct(lead, m) ==
  isLikelyConfirming(m) /\ Len(lead.lastShownProducts) > 0
\* shouldDoRAG = !isLikelyConfirming && (isProductQuery || hasImage)
shouldDoRAG(m, img) == ~isLikelyConfirming(m) /\ (isProductQuery(m) \/ img)

\* the general-chat section, from the confirmation shortcut to the reply;
\* found: what the retrieval (when one is made) returns
generalChat(lead, m, img, found) ==
  IF confirmsShownProduct(lead, m)
    THEN <<Write([NoPatch EXCEPT
                    !.pendingOrder = pendingOrderFrom(lead.lastShownProducts)])>>
         \o stageAfterShortcut(lead)
  ELSE IF shouldDoRAG(m, img) /\ Len(found) > 0
    THEN <<Write([NoPatch EXCEPT !.lastShownProducts = productsToStore(found)]),
           Resolve("ai")>>
  ELSE IF m = "" THEN <<Reject>>   \* generateAiReplyWithHistory: empty message
  ELSE <<Resolve("ai")>>

\* the order commit: findOrCreateCustomer, createOrder, the final updateLead
\* (its lastOrderId is the id createOrder returns)
orderCommit ==
  <<Step("customer", NoPatch, ""), Step("create", NoPatch, ""),
    Step("finalize", [NoPatch EXCEPT !.stage = "completed", !.pendingOrder = NullOrder], ""),
    Resolve("orderConfirmed")>>

\* handleConversation from the Lead it read to its end
afterRead(lead, m, img, found) ==
  CASE lead.stage = "ask_item" ->
         IF looksLikeGreeting(m) THEN <<Resolve("askItem")>>
         ELSE <<Write([NoPatch EXCEPT !.item = m])>> \o generalChat(lead, m, img, found)
    [] lead.stage = "ask_name" ->
         IF Len(commaParts(m)) >= 3
           THEN <<Write([NoPatch EXCEPT !.name = commaParts(m)[1],
                                        !.phone = normalizedPhone(commaParts(m)[2]),
                                        !.email = "",
                                        !.address = commaParts(m)[3],
                                        !.stage = IF hasPendingOrder(lead)
                                                    THEN "show_order_summary"
                                                    ELSE "completed"]),
                  Resolve(IF hasPendingOrder(lead) THEN "orderSummary" ELSE "done")>>
         ELSE IF fits(m, 120)
           THEN <<Write([NoPatch EXCEPT !.name = m, !.stage = "ask_phone"]),
                  Resolve("askPhone")>>
         ELSE <<Thrown("ZodError")>>  \* leadUpdateSchema.parse throws
    [] lead.stage = "ask_phone" ->
         IF fits(normalizedPhone(m), 32)
           THEN <<Write([NoPatch EXCEPT !.phone = normalizedPhone(m), !.stage = "ask_email"]),
                  Resolve("askEmail")>>
         ELSE <<Thrown("ZodError")>>
    [] lead.stage = "ask_email" ->
         IF skipEmail(m)
           THEN <<Write([NoPatch EXCEPT !.email = "", !.stage = "ask_address"]),
                  Resolve("askAddress")>>
         ELSE IF validEmail(m)
           THEN <<Write([NoPatch EXCEPT !.email = m, !.stage = "ask_address"]),
                  Resolve("askAddress")>>
         ELSE <<Thrown("ZodError")>>
    [] lead.stage = "ask_address" ->
         IF fits(m, 300)
           THEN <<Write([NoPatch EXCEPT !.address = m,
                                        !.stage = IF hasPendingOrder(lead)
                                                    THEN "show_order_summary"
                                                    ELSE "completed"]),
                  Resolve(IF hasPendingOrder(lead) THEN "orderSummary" ELSE "done")>>
         ELSE <<Thrown("ZodError")>>
    [] lead.stage = "show_order_summary" ->
         IF isAffirmative(m)
           THEN <<Write([NoPatch EXCEPT !.stage = "confirm_order"]), Resolve("confirmPrompt")>>
         ELSE IF isEdit(m)
           THEN <<Write([NoPatch EXCEPT !.stage = "ask_name"]), Resolve("askName")>>
         ELSE <<Resolve("retrySummary")>>
    [] lead.stage = "confirm_order" ->
         IF isAffirmative(m)
           THEN IF lead.pendingOrder = NullOrder \/ ~hasCompleteInfo(lead)
                  THEN <<Write([NoPatch EXCEPT !.stage = "completed",
                                               !.pendingOrder = NullOrder]),
                         Resolve("orderIssue")>>
                  ELSE orderCommit
         ELSE IF isNegative(m)
           THEN <<Write([NoPatch EXCEPT !.stage = "completed", !.pendingOrder = NullOrder]),
                  Resolve("orderCancelled")>>
         ELSE <<Resolve("retryConfirm")>>
    [] OTHER -> generalChat(lead, m, img, found)

\* the turn comes to one of the three retrieval calls (conversation.ts:401,
\* 426, 443): its stage handler does not return first, it does not take the
\* confirmation shortcut, and shouldDoRAG holds
retrieves(lead, m, img) ==
  /\ lead.stage \notin {"ask_name", "ask_phone", "ask_email", "ask_address",
                        "show_order_summary", "confirm_order"}
  /\ ~(lead.stage = "ask_item" /\ looksLikeGreeting(m))
  /\ ~confirmsShownProduct(lead, m)
  /\ shouldDoRAG(m, img)

\* history: no turn has settled yet
NoDone == [user |-> "", msg |-> "", img |-> FALSE, read |-> NoLead, outcome |-> "none",
           reply |-> "", writes |-> 0, created |-> 0, rag |-> FALSE, after |-> NoLead]

\* history kept when the turn t settles by the step s, the Lead being `after`
Settled(t, s, after) ==
  [user |-> t.user, msg |-> t.msg, img |-> t.img, read |-> t.read, outcome |-> s.op,
   reply |-> s.reply, writes |-> t.writes, created |-> t.created, rag |-> t.rag,
   after |-> after]

\* the turn goes on with the steps s, or settles when only its end is left:
\* the callback's .then sends the reply, its .catch logs the rejection
Continue(t, s, after) ==
  IF Head(s).op \in {"resolve", "reject"}
    THEN /\ convTurns' = {x \in convTurns : x.id # t.id}
         /\ lastDone' = Settled(t, Head(s), after)
    ELSE /\ convTurns' = {x \in convTurns : x.id # t.id}
                            \cup {[t EXCEPT !.pc = "run", !.steps = s]}
         /\ UNCHANGED lastDone

FreeTurn == CHOOSE i \in 1..(MaxConvInflight + 1) :
              /\ \A t \in convTurns : t.id # i
              /\ \A j \in 1..(i - 1) : \E t \in convTurns : t.id = j

InitConvWith(ls, n) ==
  /\ leads \in [ConvUsers -> ls]
  /\ orders = {}
  /\ poCount = n
  /\ convTurns = {}
  /\ turnCount = 0
  /\ lastDone = NoDone

InitConv == InitConvWith({NoLead}, 0)

\* handleConversation(userId, text, {mid, imageUrl}) up to its first await,
\* with at most maxTurns turns in a run and maxInflight of them in flight
startTurn(u, m, img, maxTurns, maxInflight) ==
  /\ turnCount < maxTurns /\ Cardinality(convTurns) < maxInflight
  /\ turnCount' = turnCount + 1
  /\ convTurns' = convTurns \cup
       {[id |-> FreeTurn, user |-> u, msg |-> m, img |-> img, pc |-> "read",
         read |-> NoLead, writes |-> 0, created |-> 0, rag |-> FALSE, steps |-> <<>>]}
  /\ UNCHANGED <<leads, orders, poCount, lastDone, now, othersConv>>

\* the EventBuffer callback: handleConversation(senderId, text, {mid, imageUrl})
\* is called as soon as the turn is flushed, whatever else is in flight
Conv_Start(u, m, img) == startTurn(u, m, img, MaxTurns, MaxConvInflight)

\* await getOrCreateLead resolved
Conv_ReadLead(t, found) ==
  LET lead == getOrCreateLead(leads[t.user])
  IN /\ t.pc = "read"
     /\ leads' = [leads EXCEPT ![t.user] = lead]
     /\ Continue([t EXCEPT !.read = lead, !.rag = retrieves(lead, t.msg, t.img)],
                 afterRead(lead, t.msg, t.img, found), lead)
     /\ UNCHANGED <<orders, poCount, turnCount, now, othersConv>>

\* getOrCreateLead threw ('Failed to create lead'): the select found no row
\* or failed, and the insert failed
Conv_ReadFails(t) ==
  /\ t.pc = "read"
  /\ Continue(t, <<Thrown("Failed to create lead")>>, leads[t.user])
  /\ UNCHANGED <<leads, orders, poCount, turnCount, now, othersConv>>

\* await updateLead resolved
Conv_Write(t) ==
  LET after == updateLead(leads[t.user], Head(t.steps).patch, poCount + 1)
  IN /\ t.pc = "run" /\ Head(t.steps).op \in {"write", "finalize"}
     /\ leads' = [leads EXCEPT ![t.user] = after]
     /\ poCount' = IF Head(t.steps).patch.pendingOrder.id = NewPO
                      THEN poCount + 1 ELSE poCount
     /\ Continue([t EXCEPT !.writes = t.writes + 1], Tail(t.steps), after)
     /\ UNCHANGED <<orders, turnCount, now, othersConv>>

\* updateLead threw: the turn rejects, except inside the order commit, whose
\* catch answers with the generic failure message and leaves the Lead as it is
Conv_WriteFails(t) ==
  /\ t.pc = "run" /\ Head(t.steps).op \in {"write", "finalize"}
  /\ Continue(t, IF Head(t.steps).op = "finalize"
                   THEN <<Resolve("orderError")>>
                   ELSE <<Thrown("Failed to update lead")>>, leads[t.user])
  /\ UNCHANGED <<leads, orders, poCount, turnCount, now, othersConv>>

\* await findOrCreateCustomer resolved
Conv_Customer(t) ==
  /\ t.pc = "run" /\ Head(t.steps).op = "customer"
  /\ Continue(t, Tail(t.steps), leads[t.user])
  /\ UNCHANGED <<leads, orders, poCount, turnCount, now, othersConv>>

\* await createOrder resolved: the order exists; next, the final updateLead
Conv_CreateOrder(t) ==
  LET po == t.read.pendingOrder.id
      n == Cardinality({o \in orders : o.user = t.user /\ o.po = po}) + 1
      rest == Tail(t.steps)
  IN /\ t.pc = "run" /\ Head(t.steps).op = "create"
     /\ orders' = orders \cup {[user |-> t.user, po |-> po, n |-> n]}
     /\ Continue([t EXCEPT !.created = t.created + 1],
                 <<[Head(rest) EXCEPT !.patch.lastOrderId = <<po, n>>]>> \o Tail(rest),
                 leads[t.user])
     /\ UNCHANGED <<leads, poCount, turnCount, now, othersConv>>

\* findOrCreateCustomer or createOrder threw: catch, generic failure message
Conv_CommitFails(t) ==
  /\ t.pc = "run" /\ Head(t.steps).op \in {"customer", "create"}
  /\ Continue(t, <<Resolve("orderError")>>, leads[t.user])
  /\ UNCHANGED <<leads, orders, poCount, turnCount, now, othersConv>>

NextConv ==
  \/ \E u \in ConvUsers, in \in TurnInputs : Conv_Start(u, in[1], in[2])
  \/ \E t \in convTurns, found \in Retrieved : Conv_ReadLead(t, found)
  \/ \E t \in convTurns : Conv_ReadFails(t)
  \/ \E t \in convTurns : Conv_Write(t)
  \/ \E t \in convTurns : Conv_WriteFails(t)
  \/ \E t \in convTurns : Conv_Customer(t)
  \/ \E t \in convTurns : Conv_CreateOrder(t)
  \/ \E t \in convTurns : Conv_CommitFails(t)

\* one user's turns handled one at a time: the next turn starts when the
\* one before it has settled
SeqUser == "u1"
SeqMsgs == ConvMsgs \cup {".", "ann@shop.io", LongField}
SeqInputs == {<<m, FALSE>> : m \in SeqMsgs} \cup {<<"", TRUE>>, <<"show shoes", TRUE>>}
MaxSeqTurns == 4
SeqLeads == InitialLeads \cup {EditedLead, CollectingLead}

Seq_Start(m, img) == startTurn(SeqUser, m, img, MaxSeqTurns, 1)

NextSeq ==
  \/ \E in \in SeqInputs : Seq_Start(in[1], in[2])
  \/ \E t \in convTurns, found \in Retrieved : Conv_ReadLead(t, found)
  \/ \E t \in convTurns : Conv_ReadFails(t)
  \/ \E t \in convTurns : Conv_Write(t)
  \/ \E t \in convTurns : Conv_WriteFails(t)
  \/ \E t \in convTurns : Conv_Customer(t)
  \/ \E t \in convTurns : Conv_CreateOrder(t)
  \/ \E t \in convTurns : Conv_CommitFails(t)

\* C1: for any user and any one pending order, at most one order is created.
C1_AtMostOneOrder == \A o \in orders : o.n = 1

\* a turn is inside its read-modify-write of the Lead: it has read the Lead
\* and an updateLead of it is still to complete
InReadModifyWrite(t) == t.pc = "run"

\* C2: no two turns of one user are inside their read-modify-write of the
\* Lead at the same time.
C2_PerUserSerialized ==
  \A a, b \in convTurns :
    (a # b /\ a.user = b.user) => ~(InReadModifyWrite(a) /\ InReadModifyWrite(b))

\* the last settled turn returned a response after reading the Lead in stage s
ReturnedFrom(s) == lastDone.outcome = "resolve" /\ lastDone.read.stage = s

\* C12: when a step of the order-commit sequence fails after an affirmative
\* reply in confirm_order, the user receives the generic failure message and
\* the Lead is left in stage completed with pendingOrder cleared.
C12_FailedCommitCompletesLead ==
  (lastDone.read.stage = "confirm_order" /\ lastDone.reply = "orderError") =>
    /\ lastDone.outcome = "resolve"
    /\ lastDone.after.stage = "completed"
    /\ lastDone.after.pendingOrder = NullOrder

\* C13: every turn handed to handleConversation returns a response, in every
\* stage and for every input; a turn ends without one only if a persistence
\* call of the leads table threw.
C13_AlwaysOneResponse ==
  lastDone.outcome = "reject" =>
    lastDone.reply \in {"Failed to create lead", "Failed to update lead"}

\* C16: after every updateLead write (and so after every turn), pendingOrder
\* is non-null only if the stage is show_order_summary or confirm_order.
C16_PendingOrderOnlyInSummaryStages ==
  \A u \in ConvUsers :
    leads[u].pendingOrder # NullOrder =>
      leads[u].stage \in {"show_order_summary", "confirm_order"}

\* the turn took the confirmation shortcut: a confirmation-shaped message
\* and products shown before
TookShortcut ==
  /\ lastDone.msg \in {"yes", "confirm", "I'll take it"}
  /\ Len(lastDone.read.lastShownProducts) > 0

\* C17 (as stated): in ask_item a greeting-shaped message leaves the Lead
\* unchanged, and any other message records the item and leaves the stage
\* ask_item.
C17_AnyMessageStaysInAskItem ==
  ReturnedFrom("ask_item") =>
    IF lastDone.msg \in {"hi", "hello", "hey", "", "."}
      THEN lastDone.after = lastDone.read
      ELSE lastDone.after.item = lastDone.msg /\ lastDone.after.stage = "ask_item"

\* C17 (amended): in ask_item a greeting-shaped message re-prompts and leaves
\* the Lead unchanged; any other message records the item, and the stage stays
\* ask_item unless the message is confirmation-shaped and products were shown
\* before, in which case the turn goes on to ask_name or show_order_summary.
C17_StaysInAskItemUnlessConfirming ==
  ReturnedFrom("ask_item") =>
    IF lastDone.msg \in {"hi", "hello", "hey", "", "."}
      THEN lastDone.after = lastDone.read /\ lastDone.reply = "askItem"
      ELSE /\ lastDone.after.item = lastDone.msg
           /\ IF TookShortcut
                THEN lastDone.after.stage \in {"ask_name", "show_order_summary"}
                ELSE lastDone.after.stage = "ask_item"

\* C17 witness: a product query in ask_item found products, recorded the item
\* and left the stage ask_item
C17_Witness ==
  /\ ReturnedFrom("ask_item") /\ lastDone.msg = "show shoes"
  /\ lastDone.after.item = "show shoes" /\ lastDone.after.stage = "ask_item"
  /\ Len(lastDone.after.lastShownProducts) > 0

\* the stages whose handlers return before the general-chat section
CollectionStages ==
  {"ask_name", "ask_phone", "ask_email", "ask_address", "show_order_summary",
   "confirm_order"}

C19_AllInfoAtOnce ==
  (ReturnedFrom("ask_name") /\ lastDone.msg = "Ann, 012345678, PP") =>
    /\ lastDone.writes = 1
    /\ lastDone.after.name = "Ann"
    /\ lastDone.after.phone = "+85512345678"
    /\ lastDone.after.address = "PP"
    /\ lastDone.after.stage =
         IF lastDone.read.pendingOrder # NullOrder
           THEN "show_order_summary" ELSE "completed"
    /\ lastDone.after.pendingOrder = lastDone.read.pendingOrder

\* C19 witness: the triple arrived in ask_name with a pending order
C19_Witness ==
  /\ ReturnedFrom("ask_name") /\ lastDone.msg = "Ann, 012345678, PP"
  /\ lastDone.read.pendingOrder # NullOrder
  /\ lastDone.read.name = "" /\ lastDone.after.stage = "show_order_summary"

\* C20: in show_order_summary an edit token moves the stage to ask_name and
\* leaves pendingOrder and all collected fields unchanged.
C20_EditKeepsOrder ==
  (ReturnedFrom("show_order_summary") /\ lastDone.msg \in {"edit", "change", "update"}) =>
    lastDone.after = [lastDone.read EXCEPT !.stage = "ask_name"]

\* C20 witness: "edit" arrived in show_order_summary with a pending order
C20_Witness ==
  /\ ReturnedFrom("show_order_summary") /\ lastDone.msg = "edit"
  /\ lastDone.read.pendingOrder # NullOrder /\ lastDone.after.stage = "ask_name"

\* C21: unrecognized input in show_order_summary (neither an affirmative nor
\* an edit token) or in confirm_order (neither an affirmative nor a negative
\* token) produces a re-prompt reply and leaves the Lead's stage, pendingOrder
\* and collected fields unchanged.
C21_UnrecognizedReprompts ==
  /\ (lastDone.read.stage = "show_order_summary"
        /\ lastDone.msg \notin {"yes", "confirm", "ok", "edit", "change", "update"}) =>
       /\ lastDone.outcome = "resolve" /\ lastDone.reply = "retrySummary"
       /\ lastDone.writes = 0 /\ lastDone.after = lastDone.read
  /\ (lastDone.read.stage = "confirm_order"
        /\ lastDone.msg \notin {"yes", "confirm", "ok", "no", "cancel"}) =>
       /\ lastDone.outcome = "resolve" /\ lastDone.reply = "retryConfirm"
       /\ lastDone.writes = 0 /\ lastDone.after = lastDone.read

\* C21 witness: "I'll take it" was re-prompted in show_order_summary with the
\* pending order kept
C21_Witness ==
  /\ ReturnedFrom("show_order_summary") /\ lastDone.msg = "I'll take it"
  /\ lastDone.reply = "retrySummary"
  /\ lastDone.after.stage = "show_order_summary"
  /\ lastDone.after.pendingOrder # NullOrder

\* C22: in confirm_order, after a negative token the Lead is in completed with
\* pendingOrder null and no order is created; after an affirmative token whose
\* commit succeeds the Lead is in completed with pendingOrder null and
\* lastOrderId equal to the id of the one order just created.
C22_ConfirmOrCancel ==
  /\ (ReturnedFrom("confirm_order") /\ lastDone.msg \in {"no", "cancel"}) =>
       /\ lastDone.reply = "orderCancelled"
       /\ lastDone.after = [lastDone.read EXCEPT !.stage = "completed",
                                                 !.pendingOrder = NullOrder]
       /\ lastDone.created = 0
  /\ (ReturnedFrom("confirm_order") /\ lastDone.reply = "orderConfirmed") =>
       /\ lastDone.msg \in {"yes", "confirm", "ok"}
       /\ lastDone.after.stage = "completed"
       /\ lastDone.after.pendingOrder = NullOrder
       /\ lastDone.created = 1
       /\ \E o \in orders : /\ o.user = lastDone.user
                            /\ o.po = lastDone.read.pendingOrder.id
                            /\ lastDone.after.lastOrderId = <<o.po, o.n>>
                            /\ \A x \in orders :
                                 (x.user = o.user /\ x.po = o.po) => x.n <= o.n

\* C22 witness: "yes" in confirm_order committed the order and the Lead is
\* completed with that order's id
C22_Witness ==
  /\ ReturnedFrom("confirm_order") /\ lastDone.msg = "yes"
  /\ lastDone.reply = "orderConfirmed" /\ lastDone.created = 1
  /\ lastDone.after.stage = "completed" /\ lastDone.after.lastOrderId # <<>>
  /\ orders # {}

(***************************************************************************)
(* retrieveSimilarContext (src/unnamed/part_017, lines 265-385): the text  *)
(* embedding, the hybrid and the vector search run in parallel, and the     *)
(* merge of their rows.  Similarities are in hundredths.                    *)
(***************************************************************************)
RetrIds == {"a", "b"}
Similarities == {20, 50}
\* a row a search returns
SearchRows == [id : RetrIds, similarity : Similarities]
\* the rows one search returns in a run of the model (the code asks for 10)
MaxRows == 2
SearchResults == UNION {[1..n -> SearchRows] : n \in 0..MaxRows}
\* Math.max(1, opts?.matchCount ?? defaultCount)
MatchCounts == {1, 10}

\* a merge that keeps every row of both lists
keepEveryRow(items, byId) == byId \o items

\* byId after the loop over the merged rows; byId is kept in insertion order,
\* and Map.set on a key it holds replaces the value in place
RECURSIVE mergeById(_, _)
mergeById(items, byId) ==
  IF items = <<>> THEN byId
  ELSE LET item == Head(items)
           at == {i \in 1..Len(byId) : byId[i].id = item.id}
       IN IF at = {} THEN mergeById(Tail(items), Append(byId, item))
          ELSE LET i == CHOOSE i \in at : TRUE
               IN IF item.similarity > byId[i].similarity
                    THEN mergeById(Tail(items), [byId EXCEPT ![i] = item])
                    ELSE mergeById(Tail(items), byId)

\* Array.prototype.sort with (a, b) => b.similarity - a.similarity: a stable
\* sort by descending similarity
RECURSIVE sortBySimilarity(_, _)
sortBySimilarity(rest, sorted) ==
  IF rest = <<>> THEN sorted
  ELSE LET x == Head(rest)
           k == Cardinality({i \in 1..Len(sorted) : sorted[i].similarity >= x.similarity})
       IN sortBySimilarity(Tail(rest),
                           SubSeq(sorted, 1, k) \o <<x>> \o SubSeq(sorted, k + 1, Len(sorted)))

\* rows.slice(0, n)
sliceTo(rows, n) == SubSeq(rows, 1, IF n < Len(rows) THEN n ELSE Len(rows))

\* the merge: [...hybrid, ...vec], de-duplicated by id, sorted, cut
mergeResults(hybrid, vec, matchCount) ==
  sliceTo(sortBySimilarity(mergeById(hybrid \o vec, <<>>), <<>>), matchCount)

\* retrieveSimilarContext: embedTextWithVertex throws, or a search answers
\* with an error and the function throws it, or the merged rows are returned
retrieveSimilarContext(embedOk, hybrid, e1, vec, e2, matchCount) ==
  IF ~embedOk \/ e1 \/ e2
    THEN [outcome |-> "throw", products |-> <<>>]
    ELSE [outcome |-> "return", products |-> mergeResults(hybrid, vec, matchCount)]

\* no call of retrieveSimilarContext is followed
NoRetrieval ==
  [embedOk |-> TRUE, hybrid |-> <<>>, e1 |-> FALSE, vec |-> <<>>, e2 |-> FALSE,
   matchCount |-> 1, outcome |-> "none", products |-> <<>>]

\* the calls of the model with what their awaited requests will answer; a
\* search that answers with an error answers with no rows
Retrievals ==
  {[embedOk |-> embedOk, hybrid |-> hybrid, e1 |-> e1, vec |-> vec, e2 |-> e2,
    matchCount |-> matchCount, outcome |-> "pending", products |-> <<>>] :
     embedOk \in BOOLEAN, e1 \in BOOLEAN, e2 \in BOOLEAN,
     hybrid \in SearchResults, vec \in SearchResults, matchCount \in MatchCounts}

InitRetrWith(cs) == retrieval \in cs

InitRetr == InitRetrWith({NoRetrieval})

\* the call returns or throws
RT_Retrieve ==
  LET c == retrieval
      r == retrieveSimilarContext(c.embedOk, c.hybrid, c.e1, c.vec, c.e2, c.matchCount)
  IN /\ c.outcome = "pending"
     /\ retrieval' = [c EXCEPT !.outcome = r.outcome, !.products = r.products]
     /\ UNCHANGED <<now, othersRetr>>

NextRetr == RT_Retrieve

\* the orderings of the rows of one result list
Orderings(rows) ==
  {s \in [1..Len(rows) -> {rows[i] : i \in 1..Len(rows)}] :
     \A r \in {rows[i] : i \in 1..Len(rows)} :
       Cardinality({i \in 1..Len(rows) : s[i] = r}) =
       Cardinality({i \in 1..Len(rows) : rows[i] = r})}

\* the highest similarity of the product id in the rows
maxSimilarity(id, rows) ==
  LET sims == {rows[i].similarity : i \in {j \in 1..Len(rows) : rows[j].id = id}}
  IN CHOOSE m \in sims : \A x \in sims : x <= m

\* C23: the merge of the hybrid and the vector rows gives the same final
\* product list whichever list comes first and however each list is ordered,
\* and the merged similarity of each product is the maximum of its
\* similarities in the lists.
C23_MergeOrderIndependent ==
  retrieval.outcome = "return" =>
    LET r == retrieval
    IN /\ \A h \in Orderings(r.hybrid), v \in Orderings(r.vec) :
            /\ mergeResults(h, v, r.matchCount) = r.products
            /\ mergeResults(v, h, r.matchCount) = r.products
       /\ \A i \in 1..Len(r.products) :
            r.products[i].similarity = maxSimilarity(r.products[i].id, r.hybrid \o r.vec)

\* the ids of the rows
idsOf(rows) == {rows[i].id : i \in 1..Len(rows)}

\* C34: the list retrieveSimilarContext returns holds each product id at most
\* once, is sorted by similarity in non-increasing order and has at most
\* matchCount elements (as many as there are products, up to matchCount); it
\* is empty when both searches return nothing.
C34_ResultIsRankedAndCut ==
  retrieval.outcome = "return" =>
    LET p == retrieval.products
        found == idsOf(retrieval.hybrid \o retrieval.vec)
    IN /\ \A i, j \in 1..Len(p) : i < j =>
            /\ p[i].id # p[j].id
            /\ p[i].similarity >= p[j].similarity
       /\ Len(p) <= retrieval.matchCount
       /\ Len(p) = IF Cardinality(found) < retrieval.matchCount
                     THEN Cardinality(found) ELSE retrieval.matchCount
       /\ idsOf(p) \subseteq found
       /\ (retrieval.hybrid = <<>> /\ retrieval.vec = <<>>) => p = <<>>

\* both searches found both products; the better one comes first
C34_Witness ==
  /\ retrieval.outcome = "return"
  /\ Len(retrieval.hybrid) = 2 /\ Len(retrieval.vec) = 2
  /\ retrieval.hybrid[1] = [id |-> "a", similarity |-> 20]
  /\ retrieval.products = <<[id |-> "b", similarity |-> 50], [id |-> "a", similarity |-> 20]>>

\* C24: if exactly one of the two searches fails, retrieveSimilarContext does
\* not fail: it returns the merged rows of the search that succeeded.
C24_OneSearchMayFail ==
  (retrieval.outcome \in {"return", "throw"} /\ retrieval.embedOk
     /\ retrieval.e1 # retrieval.e2) =>
    /\ retrieval.outcome = "return"
    /\ retrieval.products =
         mergeResults(retrieval.hybrid, retrieval.vec, retrieval.matchCount)

\* the last settled turn ran the general-chat section (ask_item after the
\* item was recorded, or a stage without a handler of its own) and did not
\* take the confirmation shortcut
OnGeneralChatPath ==
  /\ lastDone.outcome \in {"resolve", "reject"}
  /\ lastDone.read.stage \notin CollectionStages \cup {"none"}
  /\ ~(lastDone.read.stage = "ask_item" /\ lastDone.msg \in {"hi", "hello", "hey", "", "."})
  /\ ~TookShortcut

\* C25: on the general-chat path a failure of a persistence call (updateLead
\* of the item or of lastShownProducts, saveAssistantMessage, the summary
\* refresh) does not prevent handleConversation from returning the reply.
C25_PersistenceNeverBlocksReply ==
  OnGeneralChatPath => lastDone.reply # "Failed to update lead"

\* the last settled turn brought a value that leadUpdateSchema refuses for the
\* field of its stage: an over-long name or phone, a malformed e-mail
ValidationFailed ==
  \/ lastDone.read.stage \in {"ask_name", "ask_phone"} /\ lastDone.msg = LongField
  \/ lastDone.read.stage = "ask_email" /\ lastDone.msg \notin {".", "skip", "ann@shop.io"}

\* the prompt that asks for the field of a collection stage
promptOf(stage) ==
  CASE stage = "ask_name" -> "askName"
    [] stage = "ask_phone" -> "askPhone"
    [] stage = "ask_email" -> "askEmail"
    [] OTHER -> "askAddress"

\* C26: a validation failure in a collection stage leaves the Lead's stage and
\* fields unchanged and the user receives a re-prompt reply for the same stage.
C26_ValidationFailureReprompts ==
  ValidationFailed =>
    /\ lastDone.after = lastDone.read
    /\ lastDone.outcome = "resolve"
    /\ lastDone.reply = promptOf(lastDone.read.stage)

\* the stages that collect one field each
FieldStages == {"ask_name", "ask_phone", "ask_email", "ask_address"}
\* the stage that follows a field stage for a Lead read with the order po
stageAfter(s, po) ==
  CASE s = "ask_name" -> "ask_phone"
    [] s = "ask_phone" -> "ask_email"
    [] s = "ask_email" -> "ask_address"
    [] s = "ask_address" -> IF po.items # <<>> THEN "show_order_summary" ELSE "completed"

\* a turn that answered a single-field message read in a collection stage
AcceptedField ==
  /\ lastDone.outcome = "resolve"
  /\ lastDone.read.stage \in FieldStages
  /\ ~(lastDone.read.stage = "ask_name" /\ lastDone.msg = "Ann, 012345678, PP")

ReviewStages == {"show_order_summary", "confirm_order"}
\* the Lead's pending order holds at least one item
HoldsItems(lead) == Len(lead.pendingOrder.items) > 0

\* C30: with one user's turns handled one at a time, a Lead in
\* show_order_summary or confirm_order always has a pending order with at
\* least one item: a step that brings the Lead into one of the two stages
\* starts from a Lead whose pending order has items, and a step that leaves
\* it in them does not change the pending order.
C30_ReviewHasPendingOrder ==
  /\ [](\A u \in ConvUsers : leads[u].stage \in ReviewStages => HoldsItems(leads[u]))
  /\ [][\A u \in ConvUsers :
          leads'[u].stage \in ReviewStages =>
            /\ HoldsItems(leads[u])
            /\ leads[u].stage \in ReviewStages =>
                 leads'[u].pendingOrder = leads[u].pendingOrder]_vars

\* a turn that read a Lead without a pending order has stored one and brought
\* the Lead to show_order_summary
C30_Witness ==
  /\ lastDone.outcome = "resolve"
  /\ lastDone.read.pendingOrder = NullOrder
  /\ lastDone.after.stage = "show_order_summary"
  /\ leads[lastDone.user] = lastDone.after
  /\ Len(lastDone.after.pendingOrder.items) = 1

\* a turn that returned a response to a confirmation-shaped message, read with
\* products shown before, in a stage that comes to the general-chat section
ShortcutReturned ==
  /\ lastDone.outcome = "resolve"
  /\ lastDone.read.stage \in {"ask_item", "completed"}
  /\ lastDone.msg \in {"yes", "I'll take it"}
  /\ lastDone.read.lastShownProducts # <<>>

\* C33: a turn on the confirmation shortcut makes no retrieval call, is not
\* answered by the reply generation but with one of the two prompts of the
\* shortcut, and leaves lastShownProducts as it was.
C33_ShortcutBypassesRetrieval ==
  ShortcutReturned =>
    /\ ~lastDone.rag
    /\ lastDone.reply \in {"reconfirmInfo", "askName"}
    /\ lastDone.after.lastShownProducts = lastDone.read.lastShownProducts

\* a completed Lead whose owner says "I'll take it" is shown its details again
C33_Witness ==
  /\ ShortcutReturned
  /\ lastDone.msg = "I'll take it"
  /\ lastDone.read.stage = "completed"
  /\ lastDone.reply = "reconfirmInfo"
  /\ lastDone.after.pendingOrder.items # <<>>

(***************************************************************************)
(* createOrder (src/src/services/orders.ts).  A call is followed through   *)
(* its three awaited persistence calls: the insert into orders, the insert *)
(* into order_items and, when that one fails, the delete that rolls the    *)
(* order row back.  Each of them either succeeds or answers with an error. *)
(***************************************************************************)
\* items.length of a call
ItemCounts == {0, 1}

\* the calls started in a run and the calls in flight at once
MaxCreateOrders == 3
MaxOrdInflight == 2

\* the first two guards of createOrder: what it throws before any insert
createOrderRejects(tenant, n) == ~tenant \/ n = 0

\* supabase.from('orders').delete().eq('id', order.id): the orders table after
\* the rollback; a delete that answers with an error removes nothing
rollbackOrder(rows, id, deleted) == IF deleted THEN rows \ {id} ELSE rows

\* history: what a call found when it returned
Returned(c, result, itemsFailed, rows) ==
  coReturned' = coReturned \cup
    {[id |-> c.id, result |-> result, itemsFailed |-> itemsFailed,
      rowExists |-> c.id \in rows]}

InitOrdWith(ts) ==
  /\ tenantId \in ts
  /\ orderRows = {}
  /\ itemRows = {}
  /\ coCalls = {}
  /\ coCount = 0
  /\ coReturned = {}

InitOrd == InitOrdWith({TRUE})

\* createOrder(customerId, items) up to its first await
CO_Start(n) ==
  /\ coCount < MaxCreateOrders
  /\ Cardinality(coCalls) < MaxOrdInflight
  /\ coCount' = coCount + 1
  /\ LET c == [id |-> coCount + 1, n |-> n, pc |-> "insertOrder"]
     IN IF createOrderRejects(tenantId, n)
          THEN /\ Returned(c, "throw", FALSE, orderRows)
               /\ UNCHANGED coCalls
          ELSE /\ coCalls' = coCalls \cup {c}
               /\ UNCHANGED coReturned
  /\ UNCHANGED <<tenantId, orderRows, itemRows, now, othersOrd>>

\* supabase.from('orders').insert(...).select().single()
CO_InsertOrder(c, ok) ==
  /\ c \in coCalls /\ c.pc = "insertOrder"
  /\ IF ok
       THEN /\ orderRows' = orderRows \cup {c.id}
            /\ coCalls' = (coCalls \ {c}) \cup {[c EXCEPT !.pc = "insertItems"]}
            /\ UNCHANGED coReturned
       ELSE /\ coCalls' = coCalls \ {c}
            /\ Returned(c, "throw", FALSE, orderRows)
            /\ UNCHANGED orderRows
  /\ UNCHANGED <<tenantId, itemRows, coCount, now, othersOrd>>

\* supabase.from('order_items').insert(orderItems).select()
CO_InsertItems(c, ok) ==
  /\ c \in coCalls /\ c.pc = "insertItems"
  /\ IF ok
       THEN /\ itemRows' = itemRows \cup {c.id}
            /\ coCalls' = coCalls \ {c}
            /\ Returned(c, "order", FALSE, orderRows)
       ELSE /\ coCalls' = (coCalls \ {c}) \cup {[c EXCEPT !.pc = "rollback"]}
            /\ UNCHANGED <<itemRows, coReturned>>
  /\ UNCHANGED <<tenantId, orderRows, coCount, now, othersOrd>>

\* the rollback and the throw that follows it, whatever the delete answered
CO_Rollback(c, deleted) ==
  /\ c \in coCalls /\ c.pc = "rollback"
  /\ orderRows' = rollbackOrder(orderRows, c.id, deleted)
  /\ coCalls' = coCalls \ {c}
  /\ Returned(c, "throw", TRUE, orderRows')
  /\ UNCHANGED <<tenantId, itemRows, coCount, now, othersOrd>>

NextOrd ==
  \/ \E n \in ItemCounts : CO_Start(n)
  \/ \E c \in coCalls, ok \in BOOLEAN : CO_InsertOrder(c, ok)
  \/ \E c \in coCalls, ok \in BOOLEAN : CO_InsertItems(c, ok)
  \/ \E c \in coCalls, deleted \in BOOLEAN : CO_Rollback(c, deleted)

\* C11: whenever inserting the order items fails after the order row was
\* inserted, the order row no longer exists when createOrder returns by
\* throwing, for every outcome of the persistence calls (the rollback's delete
\* included).
C11_AllOrNothing ==
  \A r \in coReturned : r.itemsFailed => (r.result = "throw" /\ ~r.rowExists)

(***************************************************************************)
(* Specifications: every component starts as constructed at time 0.        *)
(***************************************************************************)
InitAll ==
  now = 0 /\ InitRC /\ InitRL /\ InitEB /\ InitAdd /\ InitSrv /\ InitKey /\ InitOwe /\ InitWeb /\ InitCB /\ InitRet /\ InitConv /\ InitOrd /\ InitRetr

\* the webhook while the first user has used up the rate limit of a window
\* opened 20 s ago by events that have since been flushed and answered
InitFullBucket ==
  now = 0 /\ InitRC /\ InitEB /\ InitAdd /\ InitSrv /\ InitKey /\ InitOwe /\ InitWeb /\ InitCB /\ InitRet /\ InitConv /\ InitOrd /\ InitRetr
          /\ buckets = [k \in Users |-> IF k = "u1"
                          THEN [count |-> RATE_LIMIT_MAX_EVENTS, resetAt |-> UsedWindowLeft]
                          ELSE NoBucket]
          /\ rlLast = [key |-> "u1", at |-> 0, nth |-> RATE_LIMIT_MAX_EVENTS, ret |-> TRUE,
                       plain |-> [k \in Users |-> IF k = "u1"
                          THEN [count |-> RATE_LIMIT_MAX_EVENTS, resetAt |-> UsedWindowLeft]
                          ELSE NoBucket],
                       plainRet |-> TRUE]
          /\ rlWin = [k \in Users |-> IF k = "u1"
                          THEN [calls |-> RATE_LIMIT_MAX_EVENTS, resetAt |-> UsedWindowLeft]
                          ELSE [calls |-> 0, resetAt |-> 0]]

\* the breaker starts closed, with no failure or one failure short of opening
\* (the state CIRCUIT_BREAKER_THRESHOLD - 1 failed summary requests leave)
InitNearThreshold ==
  now = 0 /\ InitRC /\ InitRL /\ InitEB /\ InitAdd /\ InitSrv /\ InitKey /\ InitOwe /\ InitWeb /\ InitConv /\ InitOrd /\ InitRetr
          /\ InitCBWith({0, CIRCUIT_BREAKER_THRESHOLD - 1}) /\ InitRet

\* the conversations start from Leads that earlier turns have left behind
InitMidConversation ==
  now = 0 /\ InitRC /\ InitRL /\ InitEB /\ InitAdd /\ InitSrv /\ InitKey /\ InitOwe /\ InitWeb /\ InitCB /\ InitRet /\ InitOrd /\ InitRetr
          /\ InitConvWith(InitialLeads, 1)

\* the reply functions, with and without the API key, from a breaker that has
\* counted no failure or is one failure short of opening
InitReplies ==
  now = 0 /\ InitRC /\ InitRL /\ InitEB /\ InitAdd /\ InitSrv /\ InitKey /\ InitOwe /\ InitWeb /\ InitConv /\ InitOrd /\ InitRetr
          /\ InitCBWith({0, CIRCUIT_BREAKER_THRESHOLD - 1}) /\ InitRetWith(BOOLEAN)

\* the reply functions one failure short of the breaker's threshold, the API
\* key configured
InitCache ==
  now = 0 /\ InitRC /\ InitRL /\ InitEB /\ InitAdd /\ InitSrv /\ InitKey /\ InitOwe /\ InitWeb /\ InitConv /\ InitOrd /\ InitRetr
          /\ InitCBWith({CIRCUIT_BREAKER_THRESHOLD - 1}) /\ InitRet

\* one user's turns in sequence, from the Leads earlier turns have left behind
InitSequential ==
  now = 0 /\ InitRC /\ InitRL /\ InitEB /\ InitAdd /\ InitSrv /\ InitKey /\ InitOwe /\ InitWeb /\ InitCB /\ InitRet /\ InitOrd /\ InitRetr
          /\ InitConvWith(SeqLeads, 1)

\* one call of retrieveSimilarContext for every answer of its requests
InitRetrievals ==
  now = 0 /\ InitRC /\ InitRL /\ InitEB /\ InitAdd /\ InitSrv /\ InitKey /\ InitOwe /\ InitWeb /\ InitCB /\ InitRet /\ InitConv
          /\ InitOrd
          /\ InitRetrWith({c \in Retrievals : (c.e1 => c.hybrid = <<>>) /\ (c.e2 => c.vec = <<>>)})

\* createOrder runs with or without a configured tenant
InitOrders ==
  now = 0 /\ InitRC /\ InitRL /\ InitEB /\ InitAdd /\ InitSrv /\ InitKey /\ InitOwe /\ InitWeb /\ InitCB /\ InitRet /\ InitConv
          /\ InitOrdWith(BOOLEAN) /\ InitRetr

SpecRC == InitAll /\ [][NextRC]_vars

SpecRL == InitAll /\ [][NextRL]_vars

SpecEB == InitAll /\ [][NextEB]_vars

Spec == InitAll /\ [][Next]_vars

SpecFull == InitFullBucket /\ [][Next]_vars

SpecSweep == InitAll /\ [][NextSweep]_vars

SpecKey == InitAll /\ [][NextKey]_vars

SpecLive ==
  /\ InitAll /\ [][NextLive]_vars
  /\ WF_vars(\E x \in timers : LV_FireTimer(x))
  /\ WF_vars(LV_Tick)

SpecCB == InitNearThreshold /\ [][NextCB]_vars

SpecReply == InitReplies /\ [][NextReply]_vars

SpecConv == InitMidConversation /\ [][NextConv]_vars

SpecSeq == InitSequential /\ [][NextSeq]_vars

SpecOrd == InitOrders /\ [][NextOrd]_vars

SpecBuf == InitAll /\ [][NextBuf]_vars

SpecSrv == InitAll /\ [][NextSrv]_vars

SpecCache == InitCache /\ [][NextCache]_vars

SpecRetr == InitRetrievals /\ [][NextRetr]_vars

=============================================================================
